---- MODULE Spec2Model ----
(***************************************************************************)
(* A model of the techno generator's signal-processing core.               *)
(*                                                                         *)
(* Every operation of the core is a static method or a function that takes *)
(* a buffer and arguments and returns a new buffer or raises.  A call is   *)
(* modelled by four variables: the operation called, its arguments, the    *)
(* caller's buffer and the outcome.  Each specification draws the calls of *)
(* one component from bounded sets in its Init and has one action per      *)
(* operation, which computes the outcome the way the code does.            *)
(*                                                                         *)
(* Numbers.  PCM samples are 16-bit integers.  The code computes in        *)
(* floating point; the model computes the same expressions exactly, over   *)
(* rationals carried as integer numerators over a stated denominator, and  *)
(* truncates where the code casts to int16.  The output of an IIR filter   *)
(* (scipy.signal.filtfilt) is left uninterpreted: where a value is needed  *)
(* it is drawn from the range a filter can produce.                        *)
(***************************************************************************)
EXTENDS Integers, Sequences, FiniteSets, TLC

VARIABLES
    op,      \* the operation called
    args,    \* its arguments (a record)
    audio,   \* the caller's buffer
    calc,    \* the TimingCalculator the call is made on
    prim,    \* the synthesis primitive (Kick, Bass, HiHat) the call is made on
    result   \* the outcome: [status |-> "pending" | "ok" | "error", ...]

vars == <<op, args, audio, calc, prim, result>>

----------------------------------------------------------------------------
(* Helpers *)

Min(a, b) == IF a <= b THEN a ELSE b
Max(a, b) == IF a >= b THEN a ELSE b
Abs(x) == IF x < 0 THEN -x ELSE x
Sign(x) == IF x >= 0 THEN 1 ELSE -1

\* int(x) of Python and astype(int) of numpy truncate toward zero: num/den, den > 0.
Trunc(num, den) == IF num >= 0 THEN num \div den ELSE -((-num) \div den)

\* round() of Python and numpy.round: to nearest, ties to the even integer.
RoundHalfEven(num, den) ==
    LET q == num \div den     \* floor
        r == num % den
    IN  IF 2 * r < den THEN q
        ELSE IF 2 * r > den THEN q + 1
        ELSE IF q % 2 = 0 THEN q ELSE q + 1

RECURSIVE SumSeq(_)
SumSeq(s) == IF s = <<>> THEN 0 ELSE Head(s) + SumSeq(Tail(s))

Pending == [status |-> "pending"]
Raise(e) == [status |-> "error", error |-> e]
Return(a) == [status |-> "ok", audio |-> a]

\* A call returns: the outcome is recorded, the caller's buffer and arguments stay.
Finish(r) ==
    /\ result' = r
    /\ UNCHANGED <<op, args, audio, calc, prim>>

\* Calls of the signal-processing core involve no TimingCalculator.
NoCalc == [bpm |-> 0]

\* ... and no synthesis primitive.
NoPrim == [kind |-> "none"]

----------------------------------------------------------------------------
(* Buffers of the filter engine: the shape of a pydub AudioSegment.         *)
(* The filtered sample values are not modelled.                             *)

Shape(rate, ch, frames) == [frame_rate |-> rate, channels |-> ch, frames |-> frames]

\* len(audio): the duration in whole milliseconds.
LenMs(a) ==
    1000 * (a.frames \div a.frame_rate)
        + RoundHalfEven(1000 * (a.frames % a.frame_rate), a.frame_rate)

\* AudioSegment.frame_count(ms) truncated, as slicing does.
FrameCount(a, ms) ==
    (ms \div 1000) * a.frame_rate + ((ms % 1000) * a.frame_rate) \div 1000

\* audio[start:end] in milliseconds: both ends are clamped to the buffer.
Slice(a, start, end) ==
    LET s == Min(start, LenMs(a))
        e == Min(end, LenMs(a))
        fs == Min(FrameCount(a, s), a.frames)
        fe == Min(FrameCount(a, e), a.frames)
    IN  [a EXCEPT !.frames = IF fe > fs THEN fe - fs ELSE 0]

\* np.array(audio.get_array_of_samples()): one entry per frame and channel.
ArrayLen(a) == a.frames * a.channels

----------------------------------------------------------------------------
(* Filter engine: TechnoFilters *)

\* The default sample rate of everything the generator produces.
FrameRate == 44100
\* AudioSegment.silent() without a frame_rate argument.
SilentFrameRate == 11025
\* filter_sweep's chunk length in milliseconds.
chunk_size == 500

\* Mutant: the Nyquist frequency itself is accepted.
ValidWn_NyquistAccepted(cutoff_hz, rate) == 0 < 2 * cutoff_hz /\ 2 * cutoff_hz <= rate

\* normalized_cutoff = cutoff_hz / (sample_rate / 2) lies strictly between 0 and 1.
ValidWn(cutoff_hz, rate) == 0 < 2 * cutoff_hz /\ 2 * cutoff_hz < rate

\* scipy.signal.butter(order, Wn, btype): the design fails unless every critical
\* frequency is strictly inside (0, 1) and, for a band, Wn[0] < Wn[1].
butter(cutoffs, rate) ==
    IF \E i \in 1..Len(cutoffs) : ~ValidWn(cutoffs[i], rate) THEN "ValueError"
    ELSE IF Len(cutoffs) = 2 /\ ~(cutoffs[1] < cutoffs[2]) THEN "ValueError"
    ELSE "ok"

\* scipy.signal.filtfilt(b, a, x): x must be longer than padlen = 3 * max(len(a), len(b)).
filtfilt(ntaps, n) == IF n <= 3 * ntaps THEN "ValueError" ELSE "ok"

\* TechnoFilters._array_to_audio: the array becomes a mono buffer at the reference's rate.
ArrayToAudioShape(n, reference) == Shape(reference.frame_rate, 1, n)

\* TechnoFilters.low_pass(audio, cutoff_hz, resonance, order); resonance in tenths.
low_pass(a, cutoff_hz, resonance, order) ==
    IF butter(<<cutoff_hz>>, a.frame_rate) # "ok" THEN Raise("ValueError")
    ELSE IF filtfilt(order + 1, ArrayLen(a)) # "ok" THEN Raise("ValueError")
    ELSE IF resonance > 0 /\ filtfilt(3, ArrayLen(a)) # "ok" THEN Raise("ValueError")
    ELSE Return(ArrayToAudioShape(ArrayLen(a), a))

\* TechnoFilters.high_pass(audio, cutoff_hz, order)
high_pass(a, cutoff_hz, order) ==
    IF butter(<<cutoff_hz>>, a.frame_rate) # "ok" THEN Raise("ValueError")
    ELSE IF filtfilt(order + 1, ArrayLen(a)) # "ok" THEN Raise("ValueError")
    ELSE Return(ArrayToAudioShape(ArrayLen(a), a))

\* TechnoFilters.band_pass(audio, low_hz, high_hz): a 4th-order band design has 9 taps.
band_pass(a, low_hz, high_hz) ==
    IF butter(<<low_hz, high_hz>>, a.frame_rate) # "ok" THEN Raise("ValueError")
    ELSE IF filtfilt(9, ArrayLen(a)) # "ok" THEN Raise("ValueError")
    ELSE Return(ArrayToAudioShape(ArrayLen(a), a))

\* a + b of pydub: both sides are brought to the higher frame rate and joined.
Resampled(a, rate) ==
    IF a.frame_rate = rate \/ a.frames = 0 THEN a.frames
    ELSE a.frames * (rate \div a.frame_rate)
             + (a.frames * (rate % a.frame_rate)) \div a.frame_rate

Concat(a, b) ==
    LET rate == Max(a.frame_rate, b.frame_rate)
    IN  Shape(rate, Max(a.channels, b.channels), Resampled(a, rate) + Resampled(b, rate))

RECURSIVE SumAudio(_, _)
SumAudio(segs, start) ==
    IF segs = <<>> THEN start ELSE SumAudio(Tail(segs), Concat(start, Head(segs)))

\* TechnoFilters.filter_sweep(audio, start_hz, end_hz, sweep_duration_ms);
\* sweep_duration_ms = 0 stands for None as well: `sweep_duration_ms or len(audio)`.
\* The outcome also records, per filtered chunk, the milliseconds it was cut from.
SweepChunks(a, start_hz, end_hz, sweep_duration_ms) ==
    LET sweep == IF sweep_duration_ms = 0 THEN LenMs(a) ELSE sweep_duration_ms
        num_chunks == sweep \div chunk_size
        cutoff(i) == Trunc(start_hz * num_chunks + (end_hz - start_hz) * i, num_chunks)
        piece(from, to, hz) ==
            [from |-> Min(from, LenMs(a)), to |-> Min(to, LenMs(a)), cutoff |-> hz,
             filtered |-> low_pass(Slice(a, from, to), hz, 7, 4)]
        body == [i \in 1..num_chunks |->
                    piece((i - 1) * chunk_size, (i - 1) * chunk_size + chunk_size, cutoff(i - 1))]
        remainder == IF LenMs(a) % chunk_size # 0
                     THEN <<piece(num_chunks * chunk_size, LenMs(a), end_hz)>>
                     ELSE <<>>
    IN  body \o remainder

filter_sweep_result(a, start_hz, end_hz, sweep_duration_ms) ==
    LET chunks == SweepChunks(a, start_hz, end_hz, sweep_duration_ms)
    IN  IF \E i \in 1..Len(chunks) : chunks[i].filtered.status = "error"
        THEN Raise("ValueError")
        ELSE [status |-> "ok",
              audio |-> SumAudio([i \in 1..Len(chunks) |-> chunks[i].filtered.audio],
                                 Shape(SilentFrameRate, 1, 0)),
              chunks |-> [i \in 1..Len(chunks) |->
                             [from |-> chunks[i].from, to |-> chunks[i].to,
                              cutoff |-> chunks[i].cutoff]]]

filter_sweep ==
    /\ op = "filter_sweep" /\ result.status = "pending"
    /\ Finish(filter_sweep_result(audio, args.start_hz, args.end_hz, args.sweep_duration_ms))

\* Buffers and sweep lengths are whole quarter seconds, up to MaxQuarters of them.
MaxQuarters == 6
SweepCutoffs == {200, 2000, 5000}

InitSweep ==
    /\ op = "filter_sweep"
    /\ \E q \in 0..MaxQuarters :
         audio = Shape(FrameRate, 1, (q * 250 * FrameRate) \div 1000)
    /\ \E s \in SweepCutoffs, e \in SweepCutoffs, d \in 0..(MaxQuarters + 2) :
         args = [start_hz |-> s, end_hz |-> e, sweep_duration_ms |-> d * 250]
    /\ calc = NoCalc
    /\ prim = NoPrim
    /\ result = Pending

NextSweep == filter_sweep

SpecSweep == InitSweep /\ [][NextSweep]_vars

SweepTiles(chunks, len) ==
    /\ \A i \in 1..Len(chunks) : chunks[i].from < chunks[i].to
    /\ (len > 0) => (Len(chunks) > 0 /\ chunks[1].from = 0 /\ chunks[Len(chunks)].to = len)
    /\ (len = 0) => (chunks = <<>>)
    /\ \A i \in 1..(Len(chunks) - 1) : chunks[i].to = chunks[i + 1].from

\* C1 (as claimed): the buffer filter_sweep returns is as long as its input, and the
\* chunks it filtered cover every millisecond of the input exactly once.
C1_SweepKeepsDuration ==
    (op = "filter_sweep" /\ result.status = "ok") =>
        /\ LenMs(result.audio) = LenMs(audio)
        /\ SweepTiles(result.chunks, LenMs(audio))

----------------------------------------------------------------------------
(* Calls of low_pass, high_pass and band_pass with valid and invalid specs *)

FilterRates == {22050, 44100}
FilterFrames == {0, 12, 16, 28, 4410}
CutoffValues == {-100, 0, 1, 80, 1000, 11024, 11025, 22049, 22050, 30000}

InitFilters ==
    /\ \E r \in FilterRates, n \in FilterFrames : audio = Shape(r, 1, n)
    /\ \/ /\ op = "low_pass"
          /\ \E c \in CutoffValues, q \in {0, 7}, o \in {2, 4} :
                args = [cutoff_hz |-> c, resonance |-> q, order |-> o]
       \/ /\ op = "high_pass"
          /\ \E c \in CutoffValues, o \in {2, 4} : args = [cutoff_hz |-> c, order |-> o]
       \/ /\ op = "band_pass"
          /\ \E l \in CutoffValues, h \in CutoffValues : args = [low_hz |-> l, high_hz |-> h]
    /\ calc = NoCalc
    /\ prim = NoPrim
    /\ result = Pending

call_low_pass ==
    /\ op = "low_pass" /\ result.status = "pending"
    /\ Finish(low_pass(audio, args.cutoff_hz, args.resonance, args.order))

call_high_pass ==
    /\ op = "high_pass" /\ result.status = "pending"
    /\ Finish(high_pass(audio, args.cutoff_hz, args.order))

call_band_pass ==
    /\ op = "band_pass" /\ result.status = "pending"
    /\ Finish(band_pass(audio, args.low_hz, args.high_hz))

NextFilters == call_low_pass \/ call_high_pass \/ call_band_pass

SpecFilters == InitFilters /\ [][NextFilters]_vars

\* The filter spec of the call is invalid: a cutoff not strictly between 0 and
\* sample_rate / 2, or a band whose low edge is not below its high edge.
CutoffOutOfRange(hz) == hz <= 0 \/ 2 * hz >= audio.frame_rate

InvalidFilterSpec ==
    \/ op \in {"low_pass", "high_pass"} /\ CutoffOutOfRange(args.cutoff_hz)
    \/ op = "band_pass" /\
         (CutoffOutOfRange(args.low_hz) \/ CutoffOutOfRange(args.high_hz)
            \/ args.low_hz >= args.high_hz)

\* C2: low_pass, high_pass and band_pass fail, and return no buffer, whenever the
\* filter spec is invalid.
C2_InvalidSpecFails ==
    (op \in {"low_pass", "high_pass", "band_pass"} /\ result.status # "pending"
        /\ InvalidFilterSpec) => result.status = "error"

\* A band_pass call whose edges are both valid cutoffs but in the wrong order, on a
\* buffer long enough to filter, has failed.
C2_Witness ==
    /\ op = "band_pass" /\ result.status = "error"
    /\ ~CutoffOutOfRange(args.low_hz) /\ ~CutoffOutOfRange(args.high_hz)
    /\ args.low_hz >= args.high_hz
    /\ audio.frames > 27

----------------------------------------------------------------------------
(* Quantization to 16-bit PCM *)

\* Sample-level buffers: pydub AudioSegment with its samples.
Buffer(rate, ch, samples) == [frame_rate |-> rate, channels |-> ch, samples |-> samples]

Clip(x, lo, hi) == IF x < lo THEN lo ELSE IF x > hi THEN hi ELSE x

Wrap16(t) == ((t + 32768) % 65536) - 32768

\* ndarray.astype(np.int16) of the float num/den.  A value inside the int16 range is
\* truncated toward zero.  Outside it the C conversion is undefined: builds either
\* keep the low 16 bits of the truncated value or saturate; `build` says which.
AstypeInt16(num, den, build) ==
    LET t == Trunc(num, den)
    IN  IF -32768 <= t /\ t <= 32767 THEN t
        ELSE IF build = "wrap" THEN Wrap16(t)
        ELSE Clip(t, -32768, 32767)

Builds == {"wrap", "saturate"}

\* np.clip(samples, -32768, 32767) on the float num/den, as a numerator over den.
ClipFullScale(num, den) == Clip(num, -32768 * den, 32767 * den)

\* Float arrays are sequences of numerators over 4.
\* TechnoFilters._array_to_audio(samples, reference): clip, then cast.
array_to_audio(samples, reference, build) ==
    Buffer(reference.frame_rate, 1,
           [i \in 1..Len(samples) |-> AstypeInt16(ClipFullScale(samples[i], 4), 4, build)])

\* frequency.apply_highpass(audio, cutoff_hz), given the array filtfilt returned:
\* the filtered array is cast with no clip.
apply_highpass(a, cutoff_hz, filtered, build) ==
    IF butter(<<cutoff_hz>>, a.frame_rate) # "ok" THEN Raise("ValueError")
    ELSE IF filtfilt(5, ArrayLen(a)) # "ok" THEN Raise("ValueError")
    ELSE [status |-> "ok", prequant |-> filtered,
          audio |-> Buffer(a.frame_rate, 1,
                      [i \in 1..Len(filtered) |-> AstypeInt16(filtered[i], 4, build)])]

\* TechnoPrimitive.to_audio_segment(samples): samples * 32767 cast with no clip;
\* samples are numerators over 4 of the unit amplitude.
to_audio_segment(samples, sample_rate, build) ==
    Buffer(sample_rate, 1,
           [i \in 1..Len(samples) |-> AstypeInt16(samples[i] * 32767, 4, build)])

\* What a zero-phase Butterworth filter can return for 16-bit input, in quarters of a
\* sample step: removing the offset of a full-scale buffer with one opposite spike
\* leaves a peak of almost twice full scale.
FilteredValues ==
    {-262140, -131076, -131073, -131072, -5, 0, 5, 131068, 131071, 131072, 200000, 262140}

\* The arrays the model draws from a filter: a level with one spike.
SpikeArrays(n) ==
    IF n = 0 THEN {<<>>}
    ELSE {[i \in 1..n |-> IF i = k THEN v1 ELSE v0] :
            k \in 1..n, v0 \in {-5, 0, 5}, v1 \in FilteredValues}

MaxPcmLen == 2
UnitValues == -6..6

InitPcm ==
    /\ \/ /\ op = "_array_to_audio"
          /\ \E n \in 1..MaxPcmLen : \E xs \in [1..n -> FilteredValues] : args = [samples |-> xs]
          /\ audio = Shape(FrameRate, 1, 0)
       \/ /\ op = "apply_highpass"
          /\ \E c \in {0, 80} : args = [cutoff_hz |-> c]
          /\ \E n \in {0, 16} : audio = Shape(FrameRate, 1, n)
       \/ /\ op = "to_audio_segment"
          /\ \E n \in 1..MaxPcmLen : \E xs \in [1..n -> UnitValues] : args = [samples |-> xs]
          /\ audio = Shape(FrameRate, 1, 0)
    /\ calc = NoCalc
    /\ prim = NoPrim
    /\ result = Pending

call_array_to_audio ==
    /\ op = "_array_to_audio" /\ result.status = "pending"
    /\ \E build \in Builds :
         Finish([status |-> "ok", prequant |-> args.samples,
                 audio |-> array_to_audio(args.samples, audio, build)])

call_apply_highpass ==
    /\ op = "apply_highpass" /\ result.status = "pending"
    /\ \E build \in Builds : \E filtered \in SpikeArrays(ArrayLen(audio)) :
         Finish(apply_highpass(audio, args.cutoff_hz, filtered, build))

call_to_audio_segment ==
    /\ op = "to_audio_segment" /\ result.status = "pending"
    /\ \E build \in Builds :
         Finish([status |-> "ok",
                 prequant |-> [i \in 1..Len(args.samples) |-> args.samples[i] * 32767],
                 audio |-> to_audio_segment(args.samples, FrameRate, build)])

NextPcm == call_array_to_audio \/ call_apply_highpass \/ call_to_audio_segment

SpecPcm == InitPcm /\ [][NextPcm]_vars

\* C3 (as claimed): every conversion to 16-bit PCM clips the value to [-32768, 32767]
\* before truncating it, so each output sample is the truncation of the clipped value.
C3_ClipBeforeTruncate ==
    (op \in {"_array_to_audio", "apply_highpass", "to_audio_segment"}
        /\ result.status = "ok") =>
        \A i \in 1..Len(result.prequant) :
            result.audio.samples[i] = Trunc(ClipFullScale(result.prequant[i], 4), 4)

----------------------------------------------------------------------------
(* Spatial effects: SpatialProcessor *)

RECURSIVE Pow(_, _)
Pow(b, e) == IF e = 0 THEN 1 ELSE b * Pow(b, e - 1)

MaxAbs(s) == CHOOSE m \in {Abs(s[i]) : i \in 1..Len(s)} : \A i \in 1..Len(s) : Abs(s[i]) <= m

\* floor(r * c / m) for 0 <= r <= m, c >= 0, without forming r * c:
\* r * c = q * m + rem is kept while c is built up bit by bit.
RECURSIVE MulDivQR(_, _, _)
MulDivQR(r, c, m) ==
    IF c = 0 THEN <<0, 0>>
    ELSE LET h == MulDivQR(r, c \div 2, m)
             t1 == 2 * h[2]
             q1 == IF t1 >= m THEN 1 ELSE 0
             t2 == (t1 - q1 * m) + (c % 2) * r
             q2 == IF t2 >= m THEN 1 ELSE 0
         IN  <<2 * h[1] + q1 + q2, t2 - q2 * m>>

\* (value / peak * 32767).astype(np.int16) for |value| <= peak, peak > 0.
NormalizeSample(value, peak) == Sign(value) * MulDivQR(Abs(value), 32767, peak)[1]

\* 0/0 is NaN, and the cast of NaN to int16 is undefined: builds give 0 or -32768.
NaNAsInt16(build) == IF build = "wrap" THEN 0 ELSE -32768

\* result / np.max(np.abs(result)) * 32767, cast to int16; np.max of an empty array raises.
Normalize(values, build) ==
    IF values = <<>> THEN Raise("ValueError")
    ELSE LET peak == MaxAbs(values)
         IN  [status |-> "ok",
              samples |-> [i \in 1..Len(values) |->
                             IF peak = 0 THEN NaNAsInt16(build)
                             ELSE NormalizeSample(values[i], peak)]]

\* Mutant: the echo lands one sample late.
DelaySamples_OneMore(delay_ms, rate) == Trunc(delay_ms * rate, 1000) + 1

\* delay_samples = int((delay_ms / 1000) * sample_rate)
DelaySamples(delay_ms, rate) == Trunc(delay_ms * rate, 1000)

\* feedback and mix are numerators over 2.
\* attenuation < 1e-4 for attenuation = feedback ** e
AttenuationBelowThreshold(feedback, e) == Pow(feedback, e) * 10000 < Pow(2, e)

\* The while loop of delay with delay_samples = 0 and feedback = 1 on a non-empty
\* buffer: shift stays 0 < len(samples) and the attenuation stays 1, so no break is taken.
LoopDiverges(d, n, feedback) == d = 0 /\ n > 0 /\ feedback = 2

\* The number of echoes the while loop adds before it breaks, counted from echo k.
RECURSIVE EchoCount(_, _, _, _)
EchoCount(k, d, n, feedback) ==
    IF k * d >= n THEN k - 1
    ELSE IF AttenuationBelowThreshold(feedback, k - 1) THEN k - 1
    ELSE EchoCount(k + 1, d, n, feedback)

\* wet, as numerators over 2^(echoes - 1): the dry samples plus echo k, shifted by
\* k * delay_samples and scaled by feedback^(k - 1).
Wet(x, d, echoes, feedback) ==
    LET den == IF echoes >= 1 THEN Pow(2, echoes - 1) ELSE 1
        att(k) == Pow(feedback, k - 1) * Pow(2, (echoes - 1) - (k - 1))
        tap(i, k) == IF i - k * d >= 1 THEN x[i - k * d] * att(k) ELSE 0
    IN  [i \in 1..Len(x) |-> x[i] * den + SumSeq([k \in 1..echoes |-> tap(i, k)])]

\* SpatialProcessor.delay(audio, delay_ms, feedback, mix)
delay(a, delay_ms, feedback, mix, build) ==
    LET x == a.samples
        n == Len(x)
        d == DelaySamples(delay_ms, a.frame_rate)
        echoes == IF feedback = 0 THEN (IF d < n THEN 1 ELSE 0)
                  ELSE EchoCount(1, d, n, feedback)
        den == IF echoes >= 1 THEN Pow(2, echoes - 1) ELSE 1
        wet == Wet(x, d, echoes, feedback)
        mixed == [i \in 1..n |-> x[i] * den * (2 - mix) + wet[i] * mix]
        combined == [i \in 1..n |-> x[i] + (IF d < n /\ i - d >= 1 THEN x[i - d] ELSE 0)]
    IN  IF feedback = 0 /\ d < n /\ d = 0
        THEN Raise("ValueError")    \* wet[0:] += samples[:-0]: shapes (n,) and (0,)
        ELSE IF feedback # 0 /\ LoopDiverges(d, n, feedback)
        THEN [status |-> "diverges"]
        ELSE IF feedback = 0 /\ mix = 2
        THEN Return(Buffer(a.frame_rate, 1,
                [i \in 1..n |-> AstypeInt16(Clip(combined[i], -32768, 32767), 1, build)]))
        ELSE LET norm == Normalize(mixed, build)
             IN  IF norm.status = "ok"
                 THEN Return(Buffer(a.frame_rate, 1, norm.samples))
                 ELSE norm

\* SpatialProcessor.stereo_width(audio, width); width is a numerator over 2.
\* Values are numerators over 100 (mono input) or over 4 (stereo input).
stereo_width(a, width, build) ==
    LET x == a.samples
        n == Len(x)
        d == Trunc(15 * a.frame_rate, 1000)
        left5(i) == 5 * x[i]
        right5(i) == IF i - d >= 1 THEN 4 * x[i - d] ELSE 0
        cross == 3 * (width - 2)     \* cross_mix = (width - 1.0) * 0.3, over 20
        monoL(i) == IF width # 2 THEN left5(i) * (20 - cross) + right5(i) * cross
                    ELSE 20 * left5(i)
        monoR(i) == IF width # 2 THEN right5(i) * (20 - cross) + left5(i) * cross
                    ELSE 20 * right5(i)
        frames == n \div 2
        L(f) == x[2 * f - 1]
        R(f) == x[2 * f]
        stereoL(f) == 2 * (L(f) + R(f)) + (L(f) - R(f)) * width
        stereoR(f) == 2 * (L(f) + R(f)) - (L(f) - R(f)) * width
        stereo == IF a.channels = 1
                  THEN [j \in 1..(2 * n) |->
                          IF j % 2 = 1 THEN monoL((j + 1) \div 2) ELSE monoR(j \div 2)]
                  ELSE [j \in 1..(2 * frames) |->
                          IF j % 2 = 1 THEN stereoL((j + 1) \div 2) ELSE stereoR(j \div 2)]
        norm == Normalize(stereo, build)
    IN  IF a.channels = 1 /\ d = 0 /\ n > 0
        THEN Raise("ValueError")    \* right[0:] = samples[:-0] * 0.8
        ELSE IF norm.status = "ok" THEN Return(Buffer(a.frame_rate, 2, norm.samples))
        ELSE norm

call_delay ==
    /\ op = "delay" /\ result.status = "pending"
    /\ \E build \in Builds :
         Finish(delay(audio, args.delay_ms, args.feedback, args.mix, build))

call_stereo_width ==
    /\ op = "stereo_width" /\ result.status = "pending"
    /\ \E build \in Builds : Finish(stereo_width(audio, args.width, build))

\* Buffers of up to MaxSpatialLen frames; the frame rates are scaled down so that the
\* delays are a few samples: 1 ms is one sample at 1000 Hz, 15 ms is one sample at 100 Hz.
MaxSpatialLen == 3
MaxDelayMs == 3
SpatialSamples == {-20000, -1, 0, 1, 20000}

InitSpatial ==
    /\ \/ /\ op = "delay"
          /\ \E n \in 1..MaxSpatialLen : \E xs \in [1..n -> SpatialSamples] :
                audio = Buffer(1000, 1, xs)
          /\ \E ms \in 0..MaxDelayMs, f \in 0..2, m \in 0..2 :
                args = [delay_ms |-> ms, feedback |-> f, mix |-> m]
       \/ /\ op = "stereo_width"
          /\ \/ \E n \in 1..MaxSpatialLen : \E xs \in [1..n -> SpatialSamples] :
                   audio = Buffer(100, 1, xs)
             \/ \E xs \in [1..2 -> SpatialSamples] : audio = Buffer(100, 2, xs)
          /\ \E w \in 0..4 : args = [width |-> w]
    /\ calc = NoCalc
    /\ prim = NoPrim
    /\ result = Pending

NextSpatial == call_delay \/ call_stereo_width

SpecSpatial == InitSpatial /\ [][NextSpatial]_vars

GeneralDelayPath == op = "delay" /\ ~(args.feedback = 0 /\ args.mix = 2)

\* C4 (as claimed): the buffer stereo_width returns, and the buffer delay returns on its
\* general path, is peak-normalized to full scale: its largest absolute sample is 32767.
C4_PeakNormalized ==
    ((op = "stereo_width" \/ GeneralDelayPath) /\ result.status = "ok") =>
        MaxAbs(result.audio.samples) = 32767

----------------------------------------------------------------------------
(* Dynamics and distortion: DynamicsProcessor, Distortion *)

\* 10 ** (db / 20.0), as a numerator over 1000: exact for the multiples of 20 dB,
\* rounded to three decimals for the others.
DbToLinear(db) ==
    CASE db = -60 -> 1
      [] db = -40 -> 10
      [] db = -20 -> 100
      [] db = -6  -> 501
      [] db = -1  -> 891
      [] db = 0   -> 1000
      [] db = 20  -> 10000

\* Mutant: the reduction is excess / ratio instead of excess * (1 - 1 / ratio).
CompressSample_ReductionSwapped(sample, threshold_db, ratio) ==
    LET t == DbToLinear(threshold_db)
        level == Abs(sample) * 1000
        excess == level - t * 32768
    IN  IF level > t * 32768
        THEN Sign(sample) * ((Abs(sample) * 1000 * ratio - excess * 2) \div (1000 * ratio))
        ELSE sample

\* One iteration of compress's loop, then the conversion back: the 16-bit sample the
\* compressor returns for `sample`.  ratio is a numerator over 2.
\* level and excess are numerators over 32768 * 1000.
CompressSample(sample, threshold_db, ratio) ==
    LET t == DbToLinear(threshold_db)
        level == Abs(sample) * 1000
        excess == level - t * 32768
        \* (threshold + excess - reduction) * 32768, over 1000 * ratio,
        \* with reduction = excess * (1 - 1 / ratio) = excess * (ratio - 2) / ratio
        magnitude == Abs(sample) * 1000 * ratio - excess * (ratio - 2)
        value == Sign(sample) * magnitude
        den == 1000 * ratio
    IN  IF level > t * 32768
        THEN Trunc(Clip(value, -32768 * den, 32767 * den), den)
        ELSE Trunc(Clip(sample, -32768, 32767), 1)

\* DynamicsProcessor.compress(audio, threshold_db, ratio, attack_ms, release_ms)
compress(a, threshold_db, ratio, attack_ms, release_ms) ==
    Return(Buffer(a.frame_rate, 1,
        [i \in 1..Len(a.samples) |-> CompressSample(a.samples[i], threshold_db, ratio)]))

\* Mutant: only the positive side is limited.
LimitSample_PositiveOnly(sample, ceiling_db, build) ==
    LET c == DbToLinear(ceiling_db)
    IN  IF sample * 1000 > c * 32768 THEN Trunc(c * 32768, 1000) ELSE sample

\* np.clip(sample / 32768, -ceiling, ceiling) * 32768, cast to int16 with no clip.
LimitSample(sample, ceiling_db, build) ==
    LET c == DbToLinear(ceiling_db)
        limited == Clip(sample * 1000, -(c * 32768), c * 32768)   \* over 1000
    IN  AstypeInt16(limited, 1000, build)

\* DynamicsProcessor.limit(audio, ceiling_db)
limit(a, ceiling_db, build) ==
    Return(Buffer(a.frame_rate, 1,
        [i \in 1..Len(a.samples) |-> LimitSample(a.samples[i], ceiling_db, build)]))

\* np.round(sample / 32768 * levels) / levels * 32768, clipped and cast.
CrushSample(sample, bit_depth) ==
    LET levels == Pow(2, bit_depth)
        step == RoundHalfEven(sample * levels, 32768)
    IN  Trunc(Clip(step * 32768, -32768 * levels, 32767 * levels), levels)

\* Distortion.bit_crush(audio, bit_depth)
bit_crush(a, bit_depth) ==
    Return(Buffer(a.frame_rate, 1,
        [i \in 1..Len(a.samples) |-> CrushSample(a.samples[i], bit_depth)]))

call_compress ==
    /\ op = "compress" /\ result.status = "pending"
    /\ Finish(compress(audio, args.threshold_db, args.ratio, args.attack_ms, args.release_ms))

call_limit ==
    /\ op = "limit" /\ result.status = "pending"
    /\ \E build \in Builds : Finish(limit(audio, args.ceiling_db, build))

call_bit_crush ==
    /\ op = "bit_crush" /\ result.status = "pending"
    /\ Finish(bit_crush(audio, args.bit_depth))

MaxDynLen == 2
MaxCrushLen == 3
MaxBitDepth == 4
DynSamples == {-32768, -20000, -3277, -3276, 0, 3276, 3277, 20000, 32767}
CrushSamples == {-32768, -16384, -9000, -1, 0, 1, 9000, 16384, 32767}
Decibels == {-60, -40, -20, -6, -1, 0, 20}
\* ratio 1, 1.5, 2, 4 and 20
Ratios == {2, 3, 4, 8, 40}

InitEffects ==
    /\ \/ /\ op = "compress"
          /\ \E n \in 1..MaxDynLen : \E xs \in [1..n -> DynSamples] :
                audio = Buffer(FrameRate, 1, xs)
          /\ \E t \in Decibels \ {-6, -60}, r \in Ratios, at \in {1, 5}, re \in {50, 100} :
                args = [threshold_db |-> t, ratio |-> r, attack_ms |-> at, release_ms |-> re]
       \/ /\ op = "limit"
          /\ \E n \in 1..MaxDynLen : \E xs \in [1..n -> DynSamples] :
                audio = Buffer(FrameRate, 1, xs)
          /\ \E c \in Decibels : args = [ceiling_db |-> c]
       \/ /\ op = "bit_crush"
          /\ \E n \in 1..MaxCrushLen : \E xs \in [1..n -> CrushSamples] :
                audio = Buffer(FrameRate, 1, xs)
          /\ \E b \in 1..MaxBitDepth : args = [bit_depth |-> b]
    /\ calc = NoCalc
    /\ prim = NoPrim
    /\ result = Pending

NextEffects == call_compress \/ call_limit \/ call_bit_crush

SpecEffects == InitEffects /\ [][NextEffects]_vars

C7_LimitHardClips ==
    (op = "limit" /\ result.status # "pending") =>
        /\ result.status = "ok"
        /\ Len(result.audio.samples) = Len(audio.samples)
        /\ \A i \in 1..Len(audio.samples) :
             LET x == audio.samples[i]
                 y == result.audio.samples[i]
                 ceiling == DbToLinear(args.ceiling_db) * 32768   \* over 1000
             IN  /\ Abs(y) * 1000 <= ceiling
                 /\ (Abs(x) * 1000 <= ceiling) => y = x

\* A limit call has cut a negative sample down to the ceiling and kept a quiet one.
C7_Witness ==
    /\ op = "limit" /\ result.status = "ok" /\ args.ceiling_db = -6
    /\ Len(audio.samples) = 2
    /\ audio.samples[1] = -20000 /\ result.audio.samples[1] = -16416
    /\ audio.samples[2] = 3277 /\ result.audio.samples[2] = 3277

\* C8 (as claimed): the output of bit_crush takes at most 2^bit_depth distinct values.
C8_CrushLevels ==
    (op = "bit_crush" /\ result.status = "ok") =>
        Cardinality({result.audio.samples[i] : i \in 1..Len(result.audio.samples)})
            <= Pow(2, args.bit_depth)

----------------------------------------------------------------------------
(* Frequency analyzer: core/frequency.py *)

\* FrequencyMap: the seven bands, low and high edge in Hz.
Bands_WithoutAir ==
    << [name |-> "sub", low |-> 20, high |-> 60],
       [name |-> "bass", low |-> 60, high |-> 250],
       [name |-> "low_mids", low |-> 250, high |-> 500],
       [name |-> "mids", low |-> 500, high |-> 2000],
       [name |-> "high_mids", low |-> 2000, high |-> 6000],
       [name |-> "highs", low |-> 6000, high |-> 12000] >>

Bands ==
    << [name |-> "sub", low |-> 20, high |-> 60],
       [name |-> "bass", low |-> 60, high |-> 250],
       [name |-> "low_mids", low |-> 250, high |-> 500],
       [name |-> "mids", low |-> 500, high |-> 2000],
       [name |-> "high_mids", low |-> 2000, high |-> 6000],
       [name |-> "highs", low |-> 6000, high |-> 12000],
       [name |-> "air", low |-> 12000, high |-> 20000] >>

\* The analyzer sees a buffer through np.fft.rfft: n samples give the bins 0..n \div 2,
\* bin k at frequency k * sample_rate / n.  A buffer is described here by the energy
\* |rfft|^2 of each of its bins (a function on the bins that carry energy; every
\* spectrum is the spectrum of some buffer, e.g. bin 0 alone of a constant buffer).
Spectrum(n, energy) == [frames |-> n, energy |-> energy]

RECURSIVE SumEnergy(_, _)
SumEnergy(energy, bins) ==
    IF bins = {} THEN 0
    ELSE LET k == CHOOSE b \in bins : TRUE
         IN  energy[k] + SumEnergy(energy, bins \ {k})

\* band_mask = (freqs >= band.low) & (freqs <= band.high), freqs[k] = k * sample_rate / n
BandMask(a, band, sample_rate) ==
    {k \in DOMAIN a.energy :
        band.low * a.frames <= k * sample_rate /\ k * sample_rate <= band.high * a.frames}

\* analyze_frequency_content(audio, sample_rate): per band, in the order of Bands, the
\* percentage band_energy / total_energy * 100 as a numerator over total_energy;
\* 0 for a buffer without energy.
analyze_frequency_content(a, sample_rate) ==
    LET total_energy == SumEnergy(a.energy, DOMAIN a.energy)
    IN  [status |-> "ok", total |-> total_energy,
         percent |-> [b \in 1..Len(Bands) |->
                        IF total_energy > 0
                        THEN 100 * SumEnergy(a.energy, BandMask(a, Bands[b], sample_rate))
                        ELSE 0]]

call_analyze ==
    /\ op = "analyze_frequency_content" /\ result.status = "pending"
    /\ Finish(analyze_frequency_content(audio, FrameRate))

\* 10 ms buffers: 441 samples, bins 100 Hz apart, with energy in up to MaxTones of the
\* bins listed (0 Hz, 100 Hz, the band edges 500, 2000, 6000, 12000 and 20000 Hz, bins
\* inside bands, and bins above 20 kHz), each up to MaxEnergy.
MaxTones == 2
MaxEnergy == 2
ToneBins == {0, 1, 4, 5, 10, 20, 45, 60, 120, 150, 200, 201, 220}

InitAnalyze ==
    /\ op = "analyze_frequency_content"
    /\ args = [sample_rate |-> FrameRate]
    /\ \E bins \in SUBSET ToneBins :
         /\ Cardinality(bins) <= MaxTones
         /\ \E e \in [bins -> 1..MaxEnergy] : audio = Spectrum(441, e)
    /\ calc = NoCalc
    /\ prim = NoPrim
    /\ result = Pending

NextAnalyze == call_analyze

SpecAnalyze == InitAnalyze /\ [][NextAnalyze]_vars

PercentSum == SumSeq(result.percent)

\* C9 (as claimed): for a non-silent buffer the seven percentages sum to about 100
\* (more than 95): all the energy is attributed to the seven bands.
C9_SumNear100 ==
    (op = "analyze_frequency_content" /\ result.status = "ok" /\ result.total > 0) =>
        /\ 95 * result.total < PercentSum
        /\ PercentSum < 105 * result.total

BinHz(k) == (k * FrameRate) \div audio.frames
InnerEdges == {60, 250, 500, 2000, 6000, 12000}

\* C9 (amended): each percentage lies in [0, 100] and the sum in [0, 200]; a bin counts
\* once when it lies in [20, 20000] Hz, twice when it sits on an edge two bands share,
\* and not at all below 20 Hz or above 20 kHz.  So the sum is 100 when all the energy
\* is inside the bands and off their shared edges, and 0 when it is all outside.
C9_SumAccounts ==
    (op = "analyze_frequency_content" /\ result.status = "ok" /\ result.total > 0) =>
        LET bins == DOMAIN audio.energy
            weight(k) == IF BinHz(k) < 20 \/ BinHz(k) > 20000 THEN 0
                         ELSE IF BinHz(k) \in InnerEdges THEN 2 ELSE 1
            weighted == [k \in bins |-> weight(k) * audio.energy[k]]
        IN  /\ \A b \in 1..Len(result.percent) :
                 0 <= result.percent[b] /\ result.percent[b] <= 100 * result.total
            /\ Len(result.percent) = 7
            /\ PercentSum = 100 * SumEnergy(weighted, bins)
            /\ PercentSum <= 200 * result.total
            /\ (\A k \in bins : weight(k) = 1) => PercentSum = 100 * result.total
            /\ (\A k \in bins : weight(k) = 0) => PercentSum = 0

\* An analysis of a buffer with energy inside the air band and on the 12 kHz edge.
C9_Witness ==
    /\ op = "analyze_frequency_content" /\ result.status = "ok"
    /\ DOMAIN audio.energy = {120, 150}
    /\ audio.energy[120] = 1 /\ audio.energy[150] = 2
    /\ result.total = 3
    /\ result.percent[6] = 100 /\ result.percent[7] = 300
    /\ PercentSum = 400

----------------------------------------------------------------------------
(* Timing: TimingCalculator *)

\* TimingCalculator(bpm, time_signature): the derived values are kept as fractions
\* num / den of a millisecond: ms_per_beat = (60 / bpm) * 1000.
TimingCalculator(bpm, beats_per_bar) ==
    [bpm |-> bpm, beats_per_bar |-> beats_per_bar,
     ms_per_beat |-> [num |-> 60000, den |-> bpm],
     ms_per_bar |-> [num |-> 60000 * beats_per_bar, den |-> bpm],
     ms_per_16th |-> [num |-> 60000, den |-> 4 * bpm]]

\* Mutant: the bar count is truncated instead of rounded.
nearest_bar_Truncated(c, ms) ==
    LET bars == Trunc(ms * c.ms_per_bar.den, c.ms_per_bar.num)
    IN  Trunc(bars * c.ms_per_bar.num, c.ms_per_bar.den)

\* TimingCalculator.nearest_bar(ms): bars = round(ms / ms_per_bar); int(bars * ms_per_bar)
nearest_bar(c, ms) ==
    LET bars == RoundHalfEven(ms * c.ms_per_bar.den, c.ms_per_bar.num)
    IN  Trunc(bars * c.ms_per_bar.num, c.ms_per_bar.den)

call_nearest_bar ==
    /\ op = "nearest_bar" /\ result.status = "pending"
    /\ Finish([status |-> "ok", value |-> nearest_bar(calc, args.ms)])

MaxMs == 4000
Tempos == {60, 124, 130, 174, 999, 120000, 200000}

InitTiming ==
    /\ op = "nearest_bar"
    /\ \E bpm \in Tempos, beats \in {3, 4} : calc = TimingCalculator(bpm, beats)
    /\ \E ms \in 0..MaxMs : args = [ms |-> ms]
    /\ audio = Shape(FrameRate, 1, 0)
    /\ prim = NoPrim
    /\ result = Pending

NextTiming == call_nearest_bar

SpecTiming == InitTiming /\ [][NextTiming]_vars

\* C10 (as claimed): nearest_bar is idempotent for every bpm > 0 and every ms >= 0.
C10_NearestBarIdempotent ==
    (op = "nearest_bar" /\ result.status = "ok") =>
        nearest_bar(calc, result.value) = result.value

\* C10 (amended): nearest_bar is idempotent whenever a bar lasts at least 2 ms
\* (bpm <= 30000 * beats_per_bar), and what it returns is within half a bar of ms.
C10_IdempotentFromTwoMs ==
    (op = "nearest_bar" /\ result.status = "ok"
        /\ calc.ms_per_bar.num >= 2 * calc.ms_per_bar.den) =>
        /\ nearest_bar(calc, result.value) = result.value
        /\ 2 * calc.ms_per_bar.den * (args.ms - result.value)
              <= calc.ms_per_bar.num + 2 * calc.ms_per_bar.den
        /\ 2 * calc.ms_per_bar.den * (result.value - args.ms) <= calc.ms_per_bar.num

\* A time off the grid has been snapped to a bar line that is not a whole millisecond.
C10_Witness ==
    /\ op = "nearest_bar" /\ result.status = "ok"
    /\ calc.bpm = 130 /\ calc.beats_per_bar = 4
    /\ args.ms = 2000 /\ result.value = 1846

----------------------------------------------------------------------------
(* Timing: the life of one TimingCalculator *)

\* Mutant: zero passes the check of the constructor.
ValidBpm_ZeroAccepted(bpm) == bpm >= 0

\* if bpm <= 0: raise ValueError("BPM must be positive")
ValidBpm(bpm) == bpm > 0

\* Mutant: the product is rounded up instead of truncated.
bars_to_ms_Ceiling(c, bars) ==
    Trunc(bars * c.ms_per_bar.num + c.ms_per_bar.den, c.ms_per_bar.den)

\* TimingCalculator.bars_to_ms(bars): int(bars * self.ms_per_bar)
bars_to_ms(c, bars) == Trunc(bars * c.ms_per_bar.num, c.ms_per_bar.den)

\* TimingCalculator.ms_to_bars(ms): ms / self.ms_per_bar, as a fraction num / den
ms_to_bars(c, ms) == [num |-> ms * c.ms_per_bar.den, den |-> c.ms_per_bar.num]

\* calc = TimingCalculator(bpm, (beats_per_bar, 4)): raises for bpm <= 0 and then binds
\* nothing.
call_TimingCalculator ==
    /\ calc = NoCalc
    /\ \E bpm \in {-120, 0} \cup (Tempos \ {120000, 200000}), beats \in {3, 4} :
         /\ op' = "TimingCalculator"
         /\ args' = [bpm |-> bpm, beats_per_bar |-> beats]
         /\ IF ValidBpm(bpm)
            THEN /\ calc' = TimingCalculator(bpm, beats)
                 /\ result' = [status |-> "ok"]
            ELSE /\ calc' = NoCalc
                 /\ result' = Raise("ValueError")
    /\ UNCHANGED <<audio, prim>>

\* calc.bpm = bpm: bpm is a plain attribute, the assignment stores the value and runs
\* no other code.
assign_bpm ==
    /\ calc # NoCalc
    /\ \E bpm \in Tempos \ {120000, 200000} :
         /\ op' = "assign_bpm"
         /\ args' = [bpm |-> bpm]
         /\ calc' = [calc EXCEPT !.bpm = bpm]
    /\ result' = [status |-> "ok"]
    /\ UNCHANGED <<audio, prim>>

MaxBars == 8

call_bars_to_ms ==
    /\ calc # NoCalc
    /\ \E bars \in 0..MaxBars :
         /\ op' = "bars_to_ms"
         /\ args' = [bars |-> bars]
         /\ result' = [status |-> "ok", value |-> bars_to_ms(calc, bars)]
    /\ UNCHANGED <<audio, calc, prim>>

call_ms_to_bars ==
    /\ calc # NoCalc
    /\ \E ms \in {0, 1846, 2000, 16000} :
         /\ op' = "ms_to_bars"
         /\ args' = [ms |-> ms]
         /\ result' = [status |-> "ok", value |-> ms_to_bars(calc, ms)]
    /\ UNCHANGED <<audio, calc, prim>>

InitCalc ==
    /\ op = "none"
    /\ args = [bpm |-> 0]
    /\ audio = Shape(FrameRate, 1, 0)
    /\ calc = NoCalc
    /\ prim = NoPrim
    /\ result = Pending

NextCalc == call_TimingCalculator \/ assign_bpm \/ call_bars_to_ms \/ call_ms_to_bars

SpecCalc == InitCalc /\ [][NextCalc]_vars

\* C12 and the like speak of the values derived from bpm.
DerivedFollowBpm(c) ==
    /\ c.ms_per_beat.num * c.bpm = 60000 * c.ms_per_beat.den
    /\ c.ms_per_bar.num * c.ms_per_beat.den
          = c.ms_per_beat.num * c.beats_per_bar * c.ms_per_bar.den
    /\ 4 * c.ms_per_16th.num * c.ms_per_beat.den = c.ms_per_beat.num * c.ms_per_16th.den

\* C11 (as claimed): for every bpm > 0 and whole n >= 0, bars_to_ms(n) is within one
\* sample at 44.1 kHz of n bars: |bars_to_ms(n) - n * ms_per_bar| < 1000 / 44100 ms,
\* which is |ms_to_bars(bars_to_ms(n)) - n| < (1000 / 44100) / ms_per_bar.
C11_InverseWithinOneSample ==
    (op = "bars_to_ms" /\ result.status = "ok") =>
        LET back == ms_to_bars(calc, result.value)
        IN  441 * Abs(back.num - args.bars * back.den) < 10 * calc.ms_per_bar.den

\* C11 (amended): bars_to_ms(n) is n bars truncated to a whole millisecond: it is never
\* above n * ms_per_bar and less than 1 ms below it, so ms_to_bars(bars_to_ms(n)) is at
\* most n and within 1 / ms_per_bar of it; it is exact when n * ms_per_bar is whole.
C11_InverseWithinOneMs ==
    (op = "bars_to_ms" /\ result.status = "ok") =>
        LET back == ms_to_bars(calc, result.value)
            lost == args.bars * back.den - back.num     \* (n - back) * ms_per_bar * den
        IN  /\ 0 <= lost
            /\ lost < calc.ms_per_bar.den
            /\ ((args.bars * calc.ms_per_bar.num) % calc.ms_per_bar.den = 0) => lost = 0

\* One bar at 130 bpm has been converted: 1846 ms for 1846.15.
C11_Witness ==
    /\ op = "bars_to_ms" /\ result.status = "ok"
    /\ calc.bpm = 130 /\ calc.ms_per_bar = [num |-> 240000, den |-> 130]
    /\ args.bars = 1 /\ result.value = 1846

\* C12 (as claimed): in every state of a calculator, also after bpm was assigned,
\* ms_per_beat = 60000 / bpm, ms_per_bar = ms_per_beat * beats_per_bar and
\* ms_per_16th = ms_per_beat / 4.
C12_DerivedNeverDrift == (calc # NoCalc) => DerivedFollowBpm(calc)

\* C13: construction with bpm <= 0 fails and yields no calculator; with bpm > 0 it
\* succeeds and yields a calculator of that bpm whose derived values follow it.
C13_NonPositiveBpmRejected ==
    (op = "TimingCalculator") =>
        /\ (args.bpm <= 0) => (result.status = "error" /\ calc = NoCalc)
        /\ (args.bpm > 0) =>
              /\ result.status = "ok"
              /\ calc # NoCalc
              /\ calc.bpm = args.bpm /\ calc.beats_per_bar = args.beats_per_bar
              /\ DerivedFollowBpm(calc)

\* A construction with bpm 0 has failed.
C13_Witness ==
    op = "TimingCalculator" /\ args.bpm = 0 /\ result.status = "error" /\ calc = NoCalc

----------------------------------------------------------------------------
(* Synthesis primitives: TechnoPrimitive, Kick, Bass, HiHat *)

\* int(num / den) for a denominator of either sign.
TruncDiv(num, den) == IF den > 0 THEN Trunc(num, den) ELSE Trunc(-num, -den)

\* TechnoPrimitive.__init__(bpm, sample_rate), shared by Kick, Bass and HiHat:
\* samples_per_beat = int((60 / bpm) * sample_rate); 60 / 0 raises ZeroDivisionError.
TechnoPrimitive(kind, bpm, sample_rate) ==
    IF bpm = 0 THEN Raise("ZeroDivisionError")
    ELSE [status |-> "ok",
          object |-> [kind |-> kind, bpm |-> bpm, sample_rate |-> sample_rate,
                      samples_per_beat |-> TruncDiv(60 * sample_rate, bpm)]]

\* np.linspace(start, stop, num) refuses a negative num.
linspace(n) == IF n < 0 THEN "ValueError" ELSE "ok"

\* Kick.generate(decay_ms): the layers are summed and normalized by their peak; the peak
\* of an empty array does not exist (np.max raises ValueError).
kick_generate(self, decay_ms) ==
    LET duration_samples == Trunc(decay_ms * self.sample_rate, 1000)
    IN  IF linspace(duration_samples) # "ok" THEN Raise("ValueError")
        ELSE IF duration_samples = 0 THEN Raise("ValueError")
        ELSE Return(Shape(self.sample_rate, 1, duration_samples))

\* Mutant: the boundary values are refused as well.
BassFrequencyInRange_Exclusive(frequency) == ~(frequency <= 200 \/ frequency >= 20000)

\* if frequency < 20 or frequency > 2000: raise; frequency is in tenths of a hertz.
BassFrequencyInRange(frequency) == ~(frequency < 200 \/ frequency > 20000)

\* Bass.generate_note(frequency, duration_bars, waveform, filter_cutoff, resonance):
\* duration_bars is a number of eighth bars (0.125 is 1).  The outcome records the stage
\* that failed: "validate" is the range check, before anything is synthesized.
generate_note(self, frequency, duration_bars, filter_cutoff) ==
    LET duration_samples == Trunc(duration_bars * self.samples_per_beat, 2)
    IN  IF ~BassFrequencyInRange(frequency)
        THEN [status |-> "error", error |-> "ValueError", stage |-> "validate"]
        ELSE IF linspace(duration_samples) # "ok"
        THEN [status |-> "error", error |-> "ValueError", stage |-> "synthesize"]
        ELSE IF butter(<<filter_cutoff>>, self.sample_rate) # "ok"
        THEN [status |-> "error", error |-> "ValueError", stage |-> "filter"]
        ELSE IF filtfilt(5, duration_samples) # "ok"
        THEN [status |-> "error", error |-> "ValueError", stage |-> "filter"]
        ELSE [status |-> "ok", audio |-> Shape(self.sample_rate, 1, duration_samples),
              filter_cutoff |-> filter_cutoff]

\* Mutant: a closedness of exactly 0 is refused.
ClosednessInRange_ZeroRefused(closedness) == 0 < closedness /\ closedness <= 10

\* 0.0 <= closedness <= 1.0; closedness is in tenths.
ClosednessInRange(closedness) == 0 <= closedness /\ closedness <= 10

\* HiHat.generate(frequency_center, duration_ms, closedness): noise, a 4 kHz high-pass
\* (order 4), a 6-12 kHz band-pass (order 2: 5 taps), an envelope, the peak
\* normalization and the conversion.
hihat_generate(self, duration_ms, closedness) ==
    LET duration_samples == Trunc(duration_ms * self.sample_rate, 1000)
    IN  IF ~ClosednessInRange(closedness)
        THEN [status |-> "error", error |-> "ValueError", stage |-> "validate"]
        ELSE IF butter(<<4000>>, self.sample_rate) # "ok"
        THEN [status |-> "error", error |-> "ValueError", stage |-> "filter"]
        ELSE IF filtfilt(5, duration_samples) # "ok"
        THEN [status |-> "error", error |-> "ValueError", stage |-> "filter"]
        ELSE IF butter(<<6000, 12000>>, self.sample_rate) # "ok"
        THEN [status |-> "error", error |-> "ValueError", stage |-> "filter"]
        ELSE [status |-> "ok", audio |-> Shape(self.sample_rate, 1, duration_samples)]

\* freq = 440 * 2 ** ((note - 69) / 12), in tenths of a hertz, for the notes used here.
MidiFrequency(note) ==
    CASE note = 15 -> 194
      [] note = 40 -> 824
      [] note = 42 -> 925
      [] note = 45 -> 1100
      [] note = 47 -> 1235
      [] note = 100 -> 26370

\* Mutant: every step gets the accent of a plain note.
Accent_NeverAccented(char) == 7

\* accent = 1.0 if char == "." else 0.7, in tenths
Accent(char) == IF char = "." THEN 10 ELSE 7

\* note + (3 if char == "." else 0): the gain in dB added to the step
AccentGain(char) == IF char = "." THEN 3 ELSE 0

\* AudioSegment.silent(duration=ms): int(11025 * ms / 1000) frames, none for ms <= 0.
Silent(ms) == Shape(SilentFrameRate, 1, FrameCount([frame_rate |-> SilentFrameRate], Max(ms, 0)))

\* One pass of the loop of generate_303_pattern over step i (0-based) of the pattern;
\* done is what the earlier steps produced: the buffer so far and a record per step.
RECURSIVE PatternLoop(_, _, _, _, _)
PatternLoop(self, notes, pattern, i, done) ==
    IF i >= Len(pattern) THEN done
    ELSE LET char == pattern[i + 1]
         IN  IF char = "x" \/ char = "."
             THEN IF Len(notes) = 0 THEN Raise("ZeroDivisionError")
                  ELSE LET note_idx == i % Len(notes)
                           note == generate_note(self, MidiFrequency(notes[note_idx + 1]), 2,
                                                 Trunc(800 * Accent(char), 10))
                       IN  IF note.status # "ok" THEN Raise(note.error)
                           ELSE PatternLoop(self, notes, pattern, i + 1,
                                  [status |-> "ok",
                                   audio |-> Concat(done.audio, note.audio),
                                   steps |-> Append(done.steps,
                                       [char |-> char, note_idx |-> note_idx,
                                        note |-> notes[note_idx + 1],
                                        filter_cutoff |-> note.filter_cutoff,
                                        gain |-> AccentGain(char),
                                        ms |-> LenMs(note.audio)])])
             ELSE LET rest_duration ==
                          TruncDiv(self.samples_per_beat * 1000, self.sample_rate)
                  IN  PatternLoop(self, notes, pattern, i + 1,
                        [status |-> "ok",
                         audio |-> Concat(done.audio, Silent(rest_duration)),
                         steps |-> Append(done.steps,
                             [char |-> char, note_idx |-> -1, note |-> -1,
                              filter_cutoff |-> 0, gain |-> 0,
                              ms |-> LenMs(Silent(rest_duration))])])

\* Bass.generate_303_pattern(notes, pattern)
generate_303_pattern(self, notes, pattern) ==
    PatternLoop(self, notes, pattern, 0,
                [status |-> "ok", audio |-> Silent(0), steps |-> <<>>])

PrimitiveKinds == {"Kick", "Bass", "HiHat"}
PrimitiveBpms == {-120, 0, 120, 130}
PrimitiveRates == {22050, 44100}

\* prim = Kick(bpm, sample_rate), Bass(...) or HiHat(...): none overrides __init__.
\* A run is one construction followed by one call on the new object (op = prim.kind
\* holds right after the construction): no call changes the object, so every later
\* call would meet the same primitive.
construct_primitive ==
    /\ prim = NoPrim
    /\ \E kind \in PrimitiveKinds, bpm \in PrimitiveBpms, rate \in PrimitiveRates :
         LET made == TechnoPrimitive(kind, bpm, rate)
         IN  /\ op' = kind
             /\ args' = [bpm |-> bpm, sample_rate |-> rate]
             /\ prim' = IF made.status = "ok" THEN made.object ELSE NoPrim
             /\ result' = IF made.status = "ok" THEN [status |-> "ok"] ELSE made
    /\ UNCHANGED <<audio, calc>>

call_kick_generate ==
    /\ prim.kind = "Kick" /\ op = prim.kind
    /\ \E decay_ms \in {0, 150, 200} :
         /\ op' = "Kick.generate"
         /\ args' = [decay_ms |-> decay_ms]
         /\ result' = kick_generate(prim, decay_ms)
    /\ UNCHANGED <<audio, calc, prim>>

BassFrequencies == {100, 199, 200, 201, 1100, 19999, 20000, 20001, 200000}

call_generate_note ==
    /\ prim.kind = "Bass" /\ op = prim.kind
    /\ \E frequency \in BassFrequencies, duration_bars \in {0, 1, 2, 8},
          filter_cutoff \in {560, 800, 30000} :
         /\ op' = "Bass.generate_note"
         /\ args' = [frequency |-> frequency, duration_bars |-> duration_bars,
                     filter_cutoff |-> filter_cutoff]
         /\ result' = generate_note(prim, frequency, duration_bars, filter_cutoff)
    /\ UNCHANGED <<audio, calc, prim>>

call_hihat_generate ==
    /\ prim.kind = "HiHat" /\ op = prim.kind
    /\ \E closedness \in {-10, -1, 0, 5, 8, 10, 11, 20}, duration_ms \in {0, 1, 50} :
         /\ op' = "HiHat.generate"
         /\ args' = [closedness |-> closedness, duration_ms |-> duration_ms]
         /\ result' = hihat_generate(prim, duration_ms, closedness)
    /\ UNCHANGED <<audio, calc, prim>>

MaxPattern == 4
NoteLists == {<<>>, <<40>>, <<40, 42>>, <<40, 42, 45>>, <<40, 100>>, <<15, 40>>,
              <<40, 42, 45, 47>>}
Patterns == UNION {[1..n -> {"x", ".", "-"}] : n \in 0..MaxPattern}

call_generate_303_pattern ==
    /\ prim.kind = "Bass" /\ op = prim.kind
    /\ \E notes \in NoteLists, pattern \in Patterns :
         /\ op' = "Bass.generate_303_pattern"
         /\ args' = [notes |-> notes, pattern |-> pattern]
         /\ result' = generate_303_pattern(prim, notes, pattern)
    /\ UNCHANGED <<audio, calc, prim>>

InitPrimitives ==
    /\ op = "none"
    /\ args = [bpm |-> 0]
    /\ audio = Shape(FrameRate, 1, 0)
    /\ calc = NoCalc
    /\ prim = NoPrim
    /\ result = Pending

NextPrimitives ==
    \/ construct_primitive
    \/ call_kick_generate
    \/ call_generate_note
    \/ call_hihat_generate
    \/ call_generate_303_pattern

SpecPrimitives == InitPrimitives /\ [][NextPrimitives]_vars

\* C14 (as claimed): constructing Kick, Bass or HiHat with bpm <= 0 fails at
\* construction, so no primitive with a non-positive bpm exists for generate to run on.
C14_PrimitiveRejectsBpm ==
    /\ (op \in PrimitiveKinds /\ args.bpm <= 0) => (result.status = "error" /\ prim = NoPrim)
    /\ (prim # NoPrim) => prim.bpm > 0

\* C15: generate_note fails in its range check, before anything is synthesized, exactly
\* when frequency < 20 Hz or frequency > 2000 Hz; 20 and 2000 pass the check, and with a
\* positive tempo, a duration of at least a quarter bar and a cutoff below Nyquist the
\* call returns a note of duration_bars * 4 * samples_per_beat samples.
C15_BassRangeCheck ==
    (op = "Bass.generate_note") =>
        LET out_of_range == args.frequency < 200 \/ args.frequency > 20000
        IN  /\ out_of_range <=>
                 (result.status = "error" /\ result.stage = "validate")
            /\ (~out_of_range /\ prim.bpm > 0 /\ args.duration_bars >= 2
                    /\ ValidWn(args.filter_cutoff, prim.sample_rate)) =>
                 /\ result.status = "ok"
                 /\ result.audio.frames = Trunc(args.duration_bars * prim.samples_per_beat, 2)
                 /\ result.audio.channels = 1

\* A note of exactly 2000 Hz has been generated.
C15_Witness ==
    /\ op = "Bass.generate_note" /\ args.frequency = 20000
    /\ prim.bpm = 120 /\ args.duration_bars = 2
    /\ result.status = "ok" /\ result.audio.frames = 22050

Sounded(steps) == {i \in 1..Len(steps) : steps[i].char # "-"}

\* C17 (as claimed): the successive sounded steps play notes[0], notes[1], ..., wrapping
\* around, so a pattern with at least len(notes) sounded steps plays every note; a rest
\* plays no note and adds one step of silence.
C17_NotesCycle ==
    (op = "Bass.generate_303_pattern" /\ result.status = "ok" /\ prim.bpm > 0) =>
        LET steps == result.steps
            notes == args.notes
            before(i) == Cardinality({j \in Sounded(steps) : j < i})
        IN  /\ Len(steps) = Len(args.pattern)
            /\ \A i \in Sounded(steps) :
                 steps[i].note = notes[(before(i) % Len(notes)) + 1]
            /\ (Cardinality(Sounded(steps)) >= Len(notes)) =>
                 \A k \in 1..Len(notes) : \E i \in Sounded(steps) : steps[i].note = notes[k]
            /\ \A i \in 1..Len(steps) : (steps[i].char = "-") =>
                 /\ steps[i].note = -1
                 /\ Abs(steps[i].ms * prim.sample_rate - 1000 * prim.samples_per_beat)
                       <= prim.sample_rate

\* C18 (as claimed): an accented step is louder than a plain one and its low-pass cutoff
\* is lower.
C18_AccentTighter ==
    (op = "Bass.generate_303_pattern" /\ result.status = "ok") =>
        \A i, j \in 1..Len(result.steps) :
            (result.steps[i].char = "." /\ result.steps[j].char = "x") =>
                /\ result.steps[i].gain > result.steps[j].gain
                /\ result.steps[i].filter_cutoff < result.steps[j].filter_cutoff

\* C18 (amended): an accented step is louder (+3 dB against 0 dB) and its low-pass
\* cutoff is higher, 800 Hz against 560 Hz: the accent opens the filter.
C18_AccentBrighter ==
    (op = "Bass.generate_303_pattern" /\ result.status = "ok") =>
        /\ \A i \in 1..Len(result.steps) :
             /\ (result.steps[i].char = ".") =>
                   (result.steps[i].gain = 3 /\ result.steps[i].filter_cutoff = 800)
             /\ (result.steps[i].char = "x") =>
                   (result.steps[i].gain = 0 /\ result.steps[i].filter_cutoff = 560)
        /\ \A i, j \in 1..Len(result.steps) :
             (result.steps[i].char = "." /\ result.steps[j].char = "x") =>
                /\ result.steps[i].gain > result.steps[j].gain
                /\ result.steps[i].filter_cutoff > result.steps[j].filter_cutoff

\* A pattern with a plain and an accented step has been rendered.
C18_Witness ==
    /\ op = "Bass.generate_303_pattern" /\ result.status = "ok"
    /\ args.pattern = <<"x", ".">>
    /\ result.steps[1].filter_cutoff = 560 /\ result.steps[1].gain = 0
    /\ result.steps[2].filter_cutoff = 800 /\ result.steps[2].gain = 3

----------------------------------------------------------------------------
(* MusicGPT wrapper: MusicGPTGenerator.generate_stem *)

\* What the collaborators do during one call: subprocess.run either raises or returns
\* an exit code; the output file exists or not afterwards (it may be a stale one); a
\* file that exists is a readable WAV file or not.
RunOutcomes ==
    [raises : {"none", "FileNotFoundError", "TimeoutExpired", "PermissionError"},
     returncode : {-9, 0, 1, 2, 127},
     exists : BOOLEAN,
     readable : BOOLEAN]

\* Mutant: a file that exists is returned whatever the exit code.
StemProduced_Either(returncode, exists) == returncode = 0 \/ exists

\* if result.returncode == 0 and output_path.exists()
StemProduced(returncode, exists) == returncode = 0 /\ exists

\* MusicGPTGenerator.generate_stem(prompt, duration, output_path) under the outcome run:
\* the value returned is "audio" or "None"; an exception that no except clause names
\* leaves the call.
generate_stem(run) ==
    IF run.raises = "FileNotFoundError" \/ run.raises = "TimeoutExpired"
    THEN [status |-> "ok", value |-> "None"]
    ELSE IF run.raises # "none" THEN Raise(run.raises)
    ELSE IF StemProduced(run.returncode, run.exists)
    THEN IF run.readable THEN [status |-> "ok", value |-> "audio"]
         ELSE Raise("CouldntDecodeError")
    ELSE [status |-> "ok", value |-> "None"]

call_generate_stem ==
    /\ op = "generate_stem" /\ result.status = "pending"
    /\ Finish(generate_stem(args.run))

InitStem ==
    /\ op = "generate_stem"
    /\ \E run \in RunOutcomes, duration \in {5, 10, 30} :
         args = [duration |-> duration, run |-> run]
    /\ audio = Shape(FrameRate, 1, 0)
    /\ calc = NoCalc
    /\ prim = NoPrim
    /\ result = Pending

NextStem == call_generate_stem

SpecStem == InitStem /\ [][NextStem]_vars

\* C19: generate_stem returns None, without raising, when the subprocess exits non-zero,
\* when it exits zero but the output file does not exist, when the executable is not
\* found and when the timeout expires; it returns audio only when the exit code is 0
\* and the output file exists.
C19_StemFailuresGiveNone ==
    (op = "generate_stem" /\ result.status # "pending") =>
        LET run == args.run
            none == result.status = "ok" /\ result.value = "None"
        IN  /\ (run.raises = "none" /\ run.returncode # 0) => none
            /\ (run.raises = "none" /\ run.returncode = 0 /\ ~run.exists) => none
            /\ (run.raises = "FileNotFoundError") => none
            /\ (run.raises = "TimeoutExpired") => none
            /\ (result.status = "ok" /\ result.value = "audio") =>
                  (run.raises = "none" /\ run.returncode = 0 /\ run.exists)

\* The subprocess has failed with exit code 1, a stale output file is there, and there
\* is no audio.
C19_Witness ==
    /\ op = "generate_stem" /\ result.status = "ok" /\ result.value = "None"
    /\ args.run.raises = "none" /\ args.run.returncode = 1 /\ args.run.exists

----------------------------------------------------------------------------
(* Who owns the samples: the arrays a transform creates, shares and writes *)

\* The statements of a transform that matter for ownership.  "copy": dst is a new array
\* computed from src (np.array, astype, np.copy, np.zeros_like, arithmetic, np.clip,
\* filtfilt, a pydub slice); "view": dst is another name for src's memory (left =
\* samples, reshape); "write": an in-place store into dst (x[i] = ..., x[a:] += ...);
\* "segment": the buffer returned, built from src.tobytes().
Cp(dst, src) == [kind |-> "copy", dst |-> dst, src |-> src]
Vw(dst, src) == [kind |-> "view", dst |-> dst, src |-> src]
Wr(dst, src) == [kind |-> "write", dst |-> dst, src |-> src]
Seg(src) == [kind |-> "segment", dst |-> "result", src |-> src]

\* _array_to_audio(samples, reference): clip, astype, AudioSegment(data=...tobytes())
ArrayToAudioOwnership(src) == <<Cp("clipped", src), Cp("samples_int", "clipped"), Seg("samples_int")>>

\* The statements of each transform, in program order; the variant picks the branch.
Program(name, variant) ==
    CASE name = "low_pass" ->
           <<Cp("samples", "audio"), Cp("filtered", "samples")>>
           \o (IF variant = "resonant" THEN <<Cp("filtered", "filtered")>> ELSE <<>>)
           \o ArrayToAudioOwnership("filtered")
      [] name \in {"high_pass", "band_pass"} ->
           <<Cp("samples", "audio"), Cp("filtered", "samples")>>
           \o ArrayToAudioOwnership("filtered")
      [] name = "filter_sweep" ->
           <<Cp("chunk", "audio"), Cp("samples", "chunk"), Cp("filtered", "samples")>>
           \o ArrayToAudioOwnership("filtered")
           \o <<Cp("filtered_chunk", "result"), Seg("filtered_chunk")>>
      [] name = "waveshaper" ->
           <<Cp("samples", "audio"), Cp("samples", "samples"), Cp("samples", "samples")>>
           \o (IF variant = "other" THEN <<Vw("shaped", "samples")>>
               ELSE <<Cp("shaped", "samples")>>)
           \o <<Cp("shaped", "shaped"), Cp("shaped", "shaped"), Seg("shaped")>>
      [] name = "bit_crush" ->
           <<Cp("samples", "audio"), Cp("crushed", "samples"), Cp("crushed", "crushed"),
             Seg("crushed")>>
      [] name = "compress" ->
           <<Cp("samples", "audio"), Cp("samples", "samples"),
             Cp("compressed", "samples"), Wr("compressed", "samples"),
             Cp("compressed", "compressed"), Cp("compressed", "compressed"),
             Seg("compressed")>>
      [] name = "limit" ->
           <<Cp("samples", "audio"), Cp("samples", "samples"), Cp("limited", "samples"),
             Cp("limited", "limited"), Cp("limited", "limited"), Seg("limited")>>
      [] name = "delay" ->
           <<Cp("samples", "audio"), Cp("wet", "samples"), Wr("wet", "samples"),
             Cp("mixed", "wet")>>
           \o (IF variant = "special"
               THEN <<Cp("combined", "samples"), Wr("combined", "samples"),
                      Wr("combined", "samples"), Cp("mixed", "combined")>>
               ELSE <<Cp("mixed", "mixed"), Cp("mixed", "mixed")>>)
           \o <<Seg("mixed")>>
      [] name = "stereo_width" ->
           (IF variant = "stereo"
            THEN <<Cp("samples", "audio"), Vw("samples", "samples"),
                   Cp("mid", "samples"), Cp("side", "samples"), Cp("side", "side"),
                   Cp("left", "mid"), Cp("right", "mid"), Cp("stereo", "left")>>
            ELSE <<Cp("samples", "audio"), Vw("left", "samples"),
                   Cp("right", "samples"), Wr("right", "samples"),
                   Cp("left_new", "left"), Cp("right_new", "right"),
                   Vw("left", "left_new"), Vw("right", "right_new"),
                   Cp("stereo", "left")>>)
           \o <<Cp("stereo", "stereo"), Cp("stereo", "stereo"), Seg("stereo")>>

ArrayNames ==
    {"audio", "samples", "filtered", "clipped", "samples_int", "chunk", "filtered_chunk",
     "shaped", "crushed", "compressed", "limited", "wet", "mixed", "combined", "mid",
     "side", "left", "right", "left_new", "right_new", "stereo", "result"}

\* Mutant: nothing is ever copied, every array shares the memory it was made from.
Storage_Shared(kind, dst, source_storage) == source_storage

\* The memory a statement binds dst to: the source's for a view, new memory otherwise.
Storage(kind, dst, source_storage) == IF kind = "view" THEN source_storage ELSE dst

\* The statements 1..stop of a program run in order: which memory each name refers to
\* and which memories were written in place.
RECURSIVE RunStatements(_, _, _, _)
RunStatements(program, i, stop, state) ==
    IF i > stop THEN state
    ELSE LET st == program[i]
         IN  RunStatements(program, i + 1, stop,
               IF st.kind = "write"
               THEN [state EXCEPT !.written = @ \cup {state.owner[st.dst]}]
               ELSE [state EXCEPT !.owner[st.dst] =
                                      Storage(st.kind, st.dst, state.owner[st.src])])

\* What an in-place store leaves in a buffer: other samples than before.
Overwritten(a) == [a EXCEPT !.samples = [i \in DOMAIN a.samples |-> -1 - a.samples[i]]]

\* A transform runs on the caller's buffer and returns, or fails after `stop` of its
\* statements.
call_transform ==
    /\ op = "transform" /\ result.status = "pending"
    /\ LET program == Program(args.name, args.variant)
           stop == Min(args.stop, Len(program))
           final == RunStatements(program, 1, stop,
                       [owner |-> [n \in ArrayNames |-> IF n = "audio" THEN "audio" ELSE "unbound"],
                        written |-> {}])
       IN  /\ audio' = IF "audio" \in final.written THEN Overwritten(audio) ELSE audio
           /\ result' = IF stop = Len(program)
                        THEN [status |-> "ok", storage |-> final.owner["result"],
                              written |-> final.written]
                        ELSE [status |-> "error", error |-> "ValueError",
                              written |-> final.written]
    /\ UNCHANGED <<op, args, calc, prim>>

Transforms ==
    {"low_pass", "high_pass", "band_pass", "filter_sweep", "waveshaper", "bit_crush",
     "compress", "limit", "delay", "stereo_width"}
Variants(name) ==
    CASE name = "low_pass" -> {"plain", "resonant"}
      [] name = "waveshaper" -> {"soft", "hard", "other"}
      [] name = "delay" -> {"general", "special"}
      [] name = "stereo_width" -> {"mono", "stereo"}
      [] OTHER -> {"plain"}

MaxOwnLen == 2
MaxStatements == 13

InitOwnership ==
    /\ op = "transform"
    /\ \E n \in 0..MaxOwnLen : \E xs \in [1..n -> {-32768, 0, 12345}] :
         /\ audio = Buffer(FrameRate, 1, xs)
         /\ \E name \in Transforms : \E variant \in Variants(name), stop \in 0..MaxStatements :
              args = [name |-> name, variant |-> variant, stop |-> stop, before |-> audio]
    /\ calc = NoCalc
    /\ prim = NoPrim
    /\ result = Pending

NextOwnership == call_transform

SpecOwnership == InitOwnership /\ [][NextOwnership]_vars

\* C20: no transform mutates its caller's buffer: after it returns or fails the input's
\* samples, sample rate and channel count are what they were, no in-place store went to
\* the caller's memory, and the buffer returned is a distinct one.
C20_CallerBufferUntouched ==
    (op = "transform" /\ result.status # "pending") =>
        /\ audio = args.before
        /\ "audio" \notin result.written
        /\ (result.status = "ok") => result.storage # "audio"

\* compress has run to the end: it stored into its own copy and returned a new buffer.
C20_Witness ==
    /\ op = "transform" /\ args.name = "compress" /\ result.status = "ok"
    /\ result.written = {"compressed"} /\ result.storage = "result"
    /\ audio = args.before /\ Len(audio.samples) = 2

----------------------------------------------------------------------------
(* Composition: pydub operations on composed buffers *)

\* A composed buffer: the shape of the AudioSegment and the sounds placed in it, each
\* with the frame its onset falls on and the gain (tenths of a dB) applied to it.
Track(shape, sounds) ==
    [frame_rate |-> shape.frame_rate, channels |-> shape.channels,
     frames |-> shape.frames, sounds |-> sounds]

\* AudioSegment.silent(duration=ms)
silent(ms) == Track(Silent(ms), <<>>)

\* The buffer a primitive returns: one sound starting at frame 0.
Sound(element, shape) == Track(shape, <<[element |-> element, at |-> 0, gain |-> 0]>>)

\* F of the value of e, and of the values of e1 and e2: an operand is evaluated once,
\* as the interpreter evaluates an argument before the call.
Let(e, F(_)) == CHOOSE r \in {F(x) : x \in {e}} : TRUE

Let2(e1, e2, F(_, _)) == CHOOSE r \in {F(x, y) : x \in {e1}, y \in {e2}} : TRUE

\* The onsets after a change of frame rate and a shift by offset frames.
Moved(sounds, from_rate, to_rate, offset) ==
    Let2(sounds, offset, LAMBDA s, k :
        [i \in 1..Len(s) |->
            [s[i] EXCEPT !.at = @ * (to_rate \div from_rate)
                                    + (@ * (to_rate % from_rate)) \div from_rate
                                    + k]])

\* AudioSegment.set_frame_rate(rate), as _sync applies it to both operands.
set_frame_rate(t, rate) ==
    Let(t, LAMBDA x :
        Track(Shape(rate, x.channels, Resampled(x, rate)),
              Moved(x.sounds, x.frame_rate, rate, 0)))

\* a + b for two buffers: AudioSegment.append(b, crossfade=0).
append(a, b) ==
    Let2(a, b, LAMBDA x, y :
        LET rate == Max(x.frame_rate, y.frame_rate)
        IN  Let2(set_frame_rate(x, rate), set_frame_rate(y, rate), LAMBDA s1, s2 :
                Track(Shape(rate, Max(x.channels, y.channels), s1.frames + s2.frames),
                      s1.sounds \o Moved(s2.sounds, rate, rate, s1.frames))))

\* The frame of the base that position ms falls on: the end of base[:position].
OnsetFrame(base, position) ==
    Min(FrameCount(base, Min(position, LenMs(base))), base.frames)

\* Mutant: the overlaid buffer is joined to the end of the base.
overlay_Appends(base, seg, position) ==
    Let2(base, seg, LAMBDA x, y :
        LET rate == Max(x.frame_rate, y.frame_rate)
        IN  Let2(set_frame_rate(x, rate), set_frame_rate(y, rate), LAMBDA s1, s2 :
                Track(Shape(rate, Max(x.channels, y.channels), s1.frames + s2.frames),
                      s1.sounds \o Moved(s2.sounds, rate, rate, s1.frames))))

\* base.overlay(seg, position=ms): the result has the length of the base; what the
\* overlaid buffer holds beyond the end of the base is dropped.
overlay(base, seg, position) ==
    Let2(base, seg, LAMBDA x, y :
        LET rate == Max(x.frame_rate, y.frame_rate)
        IN  Let2(set_frame_rate(x, rate), set_frame_rate(y, rate), LAMBDA s1, s2 :
                LET placed == Moved(s2.sounds, rate, rate, OnsetFrame(s1, position))
                IN  Track(Shape(rate, Max(x.channels, y.channels), s1.frames),
                          s1.sounds \o SelectSeq(placed, LAMBDA z : z.at < s1.frames))))

\* t[start:end] in milliseconds: the sounds whose onset falls inside are kept.
getitem(t, start, end) ==
    Let(t, LAMBDA x :
        LET s == Min(start, LenMs(x))
            e == Min(end, LenMs(x))
        IN  Let2(Min(FrameCount(x, s), x.frames), Min(FrameCount(x, e), x.frames),
                 LAMBDA fs, fe :
                    Track(Slice(x, start, end),
                          Moved(SelectSeq(x.sounds, LAMBDA z : fs <= z.at /\ z.at < fe),
                                x.frame_rate, x.frame_rate, -fs))))

\* t + db for a number: AudioSegment.apply_gain(db); the length is untouched.
apply_gain(t, db) ==
    Let(t, LAMBDA x :
        [x EXCEPT !.sounds = [i \in 1..Len(x.sounds) |-> [x.sounds[i] EXCEPT !.gain = @ + db]]])

----------------------------------------------------------------------------
(* Composition: TechnoPhrase *)

\* TechnoPhrase.__init__(bpm): a TimingCalculator (which refuses bpm <= 0), the length
\* of 8 bars and the three primitives at 44100 Hz.  SectionBuilder.__init__ and
\* SynthGenerator.__init__ hold the same parts; kind names the class.
Composer(kind, bpm) ==
    IF ~ValidBpm(bpm) THEN Raise("ValueError")
    ELSE LET timing == TimingCalculator(bpm, 4)
         IN  [status |-> "ok",
              object |-> [kind |-> kind, bpm |-> bpm, sample_rate |-> FrameRate,
                          samples_per_beat |-> TruncDiv(60 * FrameRate, bpm),
                          timing |-> timing,
                          duration_ms |-> bars_to_ms(timing, 8)]]

\* for i in range(n): phrase = phrase.overlay(sounds[i], position=int(i * 60000 / den));
\* a primitive that fails ends the loop with its error.  The first overlay brings the
\* phrase to the frame rate of the sounds; every overlay keeps its length and adds the
\* onset of its sound where that falls inside the phrase.
OverlayEach(phrase, element, sounds, den) ==
    LET failed == {i \in 1..Len(sounds) : sounds[i].status # "ok"}
    IN  IF failed # {}
        THEN Raise(sounds[CHOOSE i \in failed : \A j \in failed : i <= j].error)
        ELSE IF Len(sounds) = 0 THEN Return(phrase)
        ELSE Let(overlay(phrase, Sound(element, sounds[1].audio), 0), LAMBDA first :
                LET onsets == [i \in 1..Len(sounds) |->
                                  [element |-> element,
                                   at |-> OnsetFrame(first, Trunc((i - 1) * 60000, den)),
                                   gain |-> 0]]
                IN  Return(Track(first,
                                 set_frame_rate(phrase, first.frame_rate).sounds
                                     \o SelectSeq(onsets, LAMBDA z : z.at < first.frames))))

\* Kick.generate_minimal(): generate(decay_ms=150)
generate_minimal(self) == kick_generate(self, 150)

\* TechnoPhrase.create_kick_pattern(): 4 * 8 kicks, kick i at int(i * ms_per_beat).
create_kick_pattern(self) ==
    LET kick == generate_minimal(self)
    IN  OverlayEach(silent(self.duration_ms), "kick", [i \in 1..32 |-> kick], self.bpm)

\* notes = [40, 42, 45, 47]: the default bassline
BassNotes == <<40, 42, 45, 47>>

\* TechnoPhrase.create_bass_pattern(): 8 * 8 eighth notes, note i is notes[i % 4] at
\* int(i * ms_per_beat / 2).
create_bass_pattern(self) ==
    OverlayEach(silent(self.duration_ms), "bass",
                [i \in 1..64 |->
                    generate_note(self, MidiFrequency(BassNotes[((i - 1) % 4) + 1]), 1, 800)],
                2 * self.bpm)

\* TechnoPhrase.create_hat_pattern(): 16 * 8 hats of 50 ms, closedness 0.9 and 0.7 in
\* turn, hat i at int(i * ms_per_16th).
create_hat_pattern(self) ==
    OverlayEach(silent(self.duration_ms), "hats",
                [i \in 1..128 |->
                    hihat_generate(self, 50, IF (i - 1) % 2 = 0 THEN 9 ELSE 7)],
                4 * self.bpm)

\* The loop of build_phrase over elements[i..]: an unknown name is skipped, the gain of
\* volumes is added to the layer, the layer is overlaid on the phrase.
RECURSIVE BuildLoop(_, _, _, _, _)
BuildLoop(self, elements, volumes, i, phrase) ==
    IF i > Len(elements) THEN Return(phrase)
    ELSE LET element == elements[i]
         IN  IF element \notin {"kick", "bass", "hats"}
             THEN BuildLoop(self, elements, volumes, i + 1, phrase)
             ELSE Let(CASE element = "kick" -> create_kick_pattern(self)
                        [] element = "bass" -> create_bass_pattern(self)
                        [] element = "hats" -> create_hat_pattern(self),
                      LAMBDA layer :
                        IF layer.status # "ok" THEN layer
                        ELSE Let(overlay(phrase,
                                         IF element \in DOMAIN volumes
                                         THEN apply_gain(layer.audio, volumes[element])
                                         ELSE layer.audio,
                                         0),
                                 LAMBDA mixed :
                                    BuildLoop(self, elements, volumes, i + 1, mixed)))

\* TechnoPhrase.build_phrase(elements, volumes)
build_phrase(self, elements, volumes) ==
    BuildLoop(self, elements, volumes, 1, silent(self.duration_ms))

----------------------------------------------------------------------------
(* Composition: SectionBuilder *)

\* while len(seg) < target_ms: seg += phrase.  A phrase of 0 ms never reaches a
\* positive target: the loop does not end.
RECURSIVE Extend(_, _, _)
Extend(seg, phrase, target_ms) ==
    IF LenMs(seg) >= target_ms THEN Return(seg)
    ELSE IF LenMs(phrase) = 0 THEN [status |-> "diverges"]
    ELSE Let(append(seg, phrase), LAMBDA longer : Extend(longer, phrase, target_ms))

\* if len(half) > target_ms: half = half[:target_ms]
\* else: (while len(half) < target_ms: half += phrase); half = half[:target_ms]
FillTo(phrase, target_ms) ==
    IF LenMs(phrase) > target_ms THEN Return(getitem(phrase, 0, target_ms))
    ELSE Let(Extend(phrase, phrase, target_ms), LAMBDA filled :
            IF filled.status # "ok" THEN filled
            ELSE Return(getitem(filled.audio, 0, target_ms)))

\* SectionBuilder.create_intro(bars, style): gains in tenths of a dB.
create_intro(self, bars, style) ==
    IF style = "minimal"
    THEN LET half_bars == bars \div 2
             target_ms == bars_to_ms(self.timing, half_bars)
             half(phrase) == IF phrase.status # "ok" THEN phrase
                             ELSE Let(phrase.audio, LAMBDA p : FillTo(p, target_ms))
         IN  Let2(build_phrase(self, <<"kick">>, [e \in {"kick"} |-> -20]),
                  build_phrase(self, <<"kick", "bass">>,
                      [e \in {"kick", "bass"} |-> IF e = "kick" THEN -10 ELSE -40]),
                  LAMBDA kick_only, with_bass :
                    Let2(half(kick_only), half(with_bass), LAMBDA first_half, second_half :
                        IF first_half.status # "ok" THEN first_half
                        ELSE IF second_half.status # "ok" THEN second_half
                        ELSE Return(append(first_half.audio, second_half.audio))))
    ELSE IF style = "industrial"
    THEN LET target_ms == bars_to_ms(self.timing, bars)
         IN  Let(build_phrase(self, <<"kick">>, [e \in {"kick"} |-> 20]), LAMBDA phrase :
                Let(IF phrase.status # "ok" THEN phrase
                    ELSE Let(phrase.audio, LAMBDA p : Extend(p, p, target_ms)),
                    LAMBDA filled :
                        IF filled.status # "ok" THEN filled
                        ELSE Return(getitem(filled.audio, 0, target_ms))))
    ELSE Return(silent(bars_to_ms(self.timing, bars)))

\* for _ in range(n): seg += build_phrase(elements, volumes)
RECURSIVE AppendPhrases(_, _, _, _, _)
AppendPhrases(self, seg, n, elements, volumes) ==
    IF n <= 0 THEN Return(seg)
    ELSE Let(build_phrase(self, elements, volumes), LAMBDA phrase :
            IF phrase.status # "ok" THEN phrase
            ELSE Let(append(seg, phrase.audio), LAMBDA longer :
                    AppendPhrases(self, longer, n - 1, elements, volumes)))

\* The elements and volumes (tenths of a dB) of a stage of the buildup.
StageElements(stage) ==
    IF stage <= 1 THEN <<"kick", "bass">> ELSE <<"kick", "bass", "hats">>

StageVolumes(stage) ==
    CASE stage = 0 -> [e \in {"kick", "bass"} |-> IF e = "kick" THEN 0 ELSE -30]
      [] stage = 1 -> [e \in {"kick", "bass"} |-> IF e = "kick" THEN 0 ELSE -20]
      [] stage = 2 -> [e \in {"kick", "bass", "hats"} |->
                          IF e = "kick" THEN 10 ELSE IF e = "bass" THEN -10 ELSE -20]
      [] OTHER -> [e \in {"kick", "bass", "hats"} |->
                          IF e = "kick" THEN 15 ELSE IF e = "bass" THEN 0 ELSE -10]

\* range(4 // 8): the number of phrases appended to the 4 bars of a stage.
PhrasesPerStage == 4 \div 8

\* The stages of create_buildup from stage on: a 4-bar buffer that starts silent, the
\* phrases appended to it, the cut to 4 bars and the overlay at the stage's first bar.
RECURSIVE StageLoop(_, _, _, _)
StageLoop(self, buildup, stage, num_stages) ==
    IF stage >= num_stages THEN Return(buildup)
    ELSE LET four_bars == bars_to_ms(self.timing, 4)
         IN  Let(AppendPhrases(self, silent(four_bars), PhrasesPerStage,
                               StageElements(stage), StageVolumes(stage)),
                 LAMBDA built :
                    IF built.status # "ok" THEN built
                    ELSE Let(overlay(buildup, getitem(built.audio, 0, four_bars),
                                     bars_to_ms(self.timing, stage * 4)),
                             LAMBDA staged :
                                StageLoop(self, staged, stage + 1, num_stages)))

\* SectionBuilder._apply_buildup_automation(audio): four chunks of len(audio) // 4 ms,
\* chunk i raised by i * 1.5 dB, joined again.
RECURSIVE AutomationLoop(_, _, _, _)
AutomationLoop(a, chunk_ms, i, processed) ==
    IF i >= 4 THEN processed
    ELSE Let(append(processed,
                    apply_gain(getitem(a, i * chunk_ms, (i + 1) * chunk_ms), i * 15)),
             LAMBDA longer : AutomationLoop(a, chunk_ms, i + 1, longer))

apply_buildup_automation(a) ==
    Let(a, LAMBDA x : AutomationLoop(x, LenMs(x) \div 4, 0, silent(0)))

\* SectionBuilder.create_buildup(bars, filter_sweep); sweep is the filter_sweep flag.
create_buildup(self, bars, sweep) ==
    Let(StageLoop(self, silent(bars_to_ms(self.timing, bars)), 0, bars \div 4),
        LAMBDA staged :
            IF staged.status # "ok" THEN staged
            ELSE IF sweep THEN Return(apply_buildup_automation(staged.audio))
            ELSE staged)

\* phrases_needed = bars // 8
PhrasesNeeded(bars) == bars \div 8

\* SectionBuilder.create_drop(bars, energy): energy in tenths, gains in tenths of a dB.
create_drop(self, bars, energy) ==
    LET volumes == [e \in {"kick", "bass", "hats"} |->
                       IF e = "kick" THEN 2 * energy ELSE IF e = "bass" THEN 0 ELSE energy]
    IN  Let(AppendPhrases(self, silent(0), PhrasesNeeded(bars),
                          <<"kick", "bass", "hats">>, volumes),
            LAMBDA drop :
                IF drop.status # "ok" THEN drop
                ELSE Return(getitem(drop.audio, 0, bars_to_ms(self.timing, bars))))

----------------------------------------------------------------------------
(* Generators: SynthGenerator *)

\* Distortion.waveshaper(audio, drive): one output sample per input sample, written
\* out with channels=1.
waveshaper(a) == Shape(a.frame_rate, 1, ArrayLen(a))

\* Kick.generate_industrial(): generate(decay_ms=250) through the waveshaper.
generate_industrial(self) ==
    LET kick == kick_generate(self, 250)
    IN  IF kick.status # "ok" THEN kick ELSE Return(waveshaper(kick.audio))

\* for x in sounds: stem += x; stem += silent(gap), the stem starting empty.  Every
\* sound of a stem has the same length, so every pass adds the same number of frames
\* and sound i starts i passes into the stem; a primitive that fails ends the loop
\* with its error.
AppendEach(element, sounds, gap) ==
    LET failed == {i \in 1..Len(sounds) : sounds[i].status # "ok"}
        pass == append(append(silent(0), Sound(element, sounds[1].audio)), silent(gap))
        onsets == [i \in 1..Len(sounds) |->
                      [element |-> element, at |-> (i - 1) * pass.frames, gain |-> 0]]
    IN  IF failed # {}
        THEN Raise(sounds[CHOOSE i \in failed : \A j \in failed : i <= j].error)
        ELSE IF Len(sounds) = 0 THEN Return(silent(0))
        ELSE Return(Track(Shape(pass.frame_rate, pass.channels, Len(sounds) * pass.frames),
                          onsets))

\* while len(stem) < duration_ms: stem += kick; stem += silent(gap): the number of
\* passes is the first at which the stem is duration_ms long.
KickPasses(kick, gap, duration_ms) ==
    LET pass == append(append(silent(0), kick), silent(gap))
        long(n) == LenMs(Shape(pass.frame_rate, 1, n * pass.frames)) >= duration_ms
    IN  CHOOSE n \in 0..(FrameCount(pass, duration_ms) \div pass.frames + 1) :
            long(n) /\ \A m \in 0..(n - 1) : ~long(m)

\* SynthGenerator.generate_stem(element, duration_bars, style)
synth_generate_stem(self, element, duration_bars, style) ==
    LET duration_ms == bars_to_ms(self.timing, duration_bars)
    IN  IF element = "kick"
        THEN LET kick == IF style = "minimal" THEN generate_minimal(self)
                         ELSE IF style = "industrial" THEN generate_industrial(self)
                         ELSE kick_generate(self, 200)
                 \* int(self.timing.ms_per_beat - len(kick))
                 gap == Trunc(60000 - LenMs(kick.audio) * self.bpm, self.bpm)
                 passes == KickPasses(Sound("kick", kick.audio), gap, duration_ms)
                 stem == AppendEach("kick", [i \in 1..passes |-> kick], gap)
             IN  IF kick.status # "ok" THEN kick
                 ELSE Return(getitem(stem.audio, 0, duration_ms))
        ELSE IF element = "bass"
        THEN LET notes == [i \in 1..(duration_bars * 8) |->
                              generate_note(self,
                                  MidiFrequency(BassNotes[((i - 1) % 4) + 1]), 1, 800)]
                 stem == AppendEach("bass", notes, 0)
             IN  IF stem.status # "ok" THEN stem
                 ELSE Return(getitem(stem.audio, 0, duration_ms))
        ELSE IF element = "hats"
        THEN LET hats == [i \in 1..(duration_bars * 16) |->
                             hihat_generate(self, 50, IF (i - 1) % 2 = 0 THEN 9 ELSE 7)]
                 \* gap = int(self.timing.ms_per_16th - len(hat)), added if gap > 0
                 gap == Trunc(60000 - LenMs(hats[1].audio) * 4 * self.bpm, 4 * self.bpm)
                 stem == AppendEach("hats", hats, gap)
             IN  IF stem.status # "ok" THEN stem
                 ELSE Return(getitem(stem.audio, 0, duration_ms))
        ELSE Return(silent(duration_ms))

----------------------------------------------------------------------------
(* Composition: one builder is constructed, then one of its methods is called *)

ComposerKinds == {"TechnoPhrase", "SectionBuilder", "SynthGenerator"}
ComposerBpms == {-124, 0, 120, 124, 128, 138, 174, 90000}

\* prim = TechnoPhrase(bpm), SectionBuilder(bpm) or SynthGenerator(bpm); calc is its
\* timing attribute.
construct_composer ==
    /\ prim = NoPrim /\ op = "none"
    /\ \E kind \in ComposerKinds, bpm \in ComposerBpms :
         LET made == Composer(kind, bpm)
         IN  /\ op' = kind
             /\ args' = [bpm |-> bpm]
             /\ prim' = IF made.status = "ok" THEN made.object ELSE NoPrim
             /\ calc' = IF made.status = "ok" THEN made.object.timing ELSE NoCalc
             /\ result' = IF made.status = "ok" THEN [status |-> "ok"] ELSE made
    /\ UNCHANGED audio

ElementLists ==
    {<<>>, <<"kick">>, <<"bass">>, <<"hats">>, <<"clap">>, <<"kick", "bass">>,
     <<"kick", "clap", "hats">>, <<"kick", "bass", "hats">>}

VolumeMaps ==
    {[e \in {} |-> 0], [e \in {"kick"} |-> -20], [e \in {"kick", "bass", "hats"} |-> 30],
     [e \in {"bass", "clap"} |-> -60]}

call_build_phrase ==
    /\ prim.kind = "TechnoPhrase" /\ op = prim.kind
    /\ \E elements \in ElementLists, volumes \in VolumeMaps :
         /\ op' = "build_phrase"
         /\ args' = [elements |-> elements, volumes |-> volumes]
         /\ result' = build_phrase(prim, elements, volumes)
    /\ UNCHANGED <<audio, calc, prim>>

MaxSectionBars == 16

call_create_intro ==
    /\ prim.kind = "SectionBuilder" /\ op = prim.kind
    /\ \E bars \in 1..MaxSectionBars, style \in {"minimal", "industrial"} :
         /\ op' = "create_intro"
         /\ args' = [bars |-> bars, style |-> style]
         /\ result' = create_intro(prim, bars, style)
    /\ UNCHANGED <<audio, calc, prim>>

call_create_buildup ==
    /\ prim.kind = "SectionBuilder" /\ op = prim.kind
    /\ \E bars \in 1..MaxSectionBars, sweep \in BOOLEAN :
         /\ op' = "create_buildup"
         /\ args' = [bars |-> bars, filter_sweep |-> sweep]
         /\ result' = create_buildup(prim, bars, sweep)
    /\ UNCHANGED <<audio, calc, prim>>

call_create_drop ==
    /\ prim.kind = "SectionBuilder" /\ op = prim.kind
    /\ \E bars \in 1..MaxSectionBars, energy \in {0, 8, 10} :
         /\ op' = "create_drop"
         /\ args' = [bars |-> bars, energy |-> energy]
         /\ result' = create_drop(prim, bars, energy)
    /\ UNCHANGED <<audio, calc, prim>>

MaxStemBars == 40

call_synth_generate_stem ==
    /\ prim.kind = "SynthGenerator" /\ op = prim.kind
    /\ \E element \in {"kick", "bass", "hats", "clap"}, duration_bars \in 0..MaxStemBars,
          style \in {"minimal", "industrial", "other"} :
         /\ op' = "generate_stem"
         /\ args' = [element |-> element, duration_bars |-> duration_bars, style |-> style]
         /\ result' = synth_generate_stem(prim, element, duration_bars, style)
    /\ UNCHANGED <<audio, calc, prim>>

InitCompose ==
    /\ op = "none"
    /\ args = [bpm |-> 0]
    /\ audio = Shape(FrameRate, 1, 0)
    /\ calc = NoCalc
    /\ prim = NoPrim
    /\ result = Pending

NextCompose ==
    \/ construct_composer
    \/ call_build_phrase
    \/ call_create_intro
    \/ call_create_buildup
    \/ call_create_drop
    \/ call_synth_generate_stem

SpecCompose == InitCompose /\ [][NextCompose]_vars

\* The distance of a returned buffer from bars bars, in milliseconds:
\* |len(result) - bars * 4 * 60000 / bpm| <= ms.
WithinMs(a, bars, ms) ==
    Abs(LenMs(a) * prim.bpm - bars * 240000) <= ms * prim.bpm

\* C21 (as claimed): for every bpm > 0, element list and volumes build_phrase returns
\* a buffer within 5 ms of 8 bars.
C21_PhraseEightBars ==
    (op = "build_phrase") => (result.status = "ok" /\ WithinMs(result.audio, 8, 5))

\* C21: build_phrase returns a buffer within 5 ms of 8 bars whenever the eighth-note
\* bass note is long enough for its filter (more than 15 samples: int(samples_per_beat
\* / 2) > 15) or no bass is asked for; the buffer has the length, in frames, of the
\* silent phrase it started from, whatever is overlaid and whatever the volumes.
C21_PhraseEightBarsPlayable ==
    (op = "build_phrase") =>
        LET has_bass == \E i \in 1..Len(args.elements) : args.elements[i] = "bass"
        IN  (~has_bass \/ prim.samples_per_beat \div 2 > 15) =>
               /\ result.status = "ok"
               /\ WithinMs(result.audio, 8, 5)
               /\ result.audio.frames =
                     set_frame_rate(silent(prim.duration_ms), result.audio.frame_rate).frames

\* A phrase of kick, bass and hats with volumes has been built at 124 BPM.
C21_Witness ==
    /\ op = "build_phrase" /\ prim.bpm = 124
    /\ args.elements = <<"kick", "bass", "hats">> /\ DOMAIN args.volumes = {"kick"}
    /\ result.status = "ok" /\ LenMs(result.audio) = 15483
    /\ Len(result.audio.sounds) = 224

\* C24 (as claimed): for every bars >= 1 and energy create_drop returns a section
\* within 200 ms of bars bars.
C24_DropLength ==
    (op = "create_drop" /\ prim.bpm <= 174) =>
        (result.status = "ok" /\ WithinMs(result.audio, args.bars, 200))

\* C25 (as claimed): for every bars >= 1 create_intro returns a section within 200 ms
\* of bars bars in both styles, odd or even.
C25_IntroLength ==
    (op = "create_intro" /\ prim.bpm <= 174) =>
        (result.status = "ok" /\ WithinMs(result.audio, args.bars, 200))

\* The sounds of element whose onset lies in the 4-bar window of stage.
StageSounds(a, stage, element) ==
    {i \in 1..Len(a.sounds) :
        /\ a.sounds[i].element = element
        /\ a.sounds[i].at >= FrameCount(a, bars_to_ms(calc, 4 * stage))
        /\ a.sounds[i].at < FrameCount(a, bars_to_ms(calc, 4 * stage + 4))}

\* C26 (as claimed): create_buildup returns a buffer within 500 ms of bars bars in which
\* the window of every stage holds the elements of that stage.
C26_BuildupStages ==
    (op = "create_buildup" /\ prim.bpm <= 174) =>
        /\ result.status = "ok"
        /\ WithinMs(result.audio, args.bars, 500)
        /\ \A stage \in 0..((args.bars \div 4) - 1) :
              \A i \in 1..Len(StageElements(stage)) :
                  StageSounds(result.audio, stage, StageElements(stage)[i]) # {}

\* C27 (as claimed): for every element and every number of bars the stem of
\* generate_stem is as long as bars_to_ms(duration_bars), within the 500 ms of the tests.
C27_StemLength ==
    (op = "generate_stem" /\ prim.bpm <= 174) =>
        /\ result.status = "ok"
        /\ Abs(LenMs(result.audio) - bars_to_ms(calc, args.duration_bars)) <= 500
        /\ (args.duration_bars = 0) => (LenMs(result.audio) = 0)

\* C30 (as claimed): in a kick stem kick k starts within 1 ms (44.1 frames) of
\* k * ms_per_beat, in a hat stem hat k within 1 ms of k * ms_per_16th.
C30_OnGrid ==
    (op = "generate_stem" /\ args.element \in {"kick", "hats"} /\ result.status = "ok"
         /\ prim.bpm <= 174) =>
        LET per_beat == IF args.element = "kick" THEN 1 ELSE 4
        IN  \A k \in 1..Len(result.audio.sounds) :
               Abs(result.audio.sounds[k].at * per_beat * prim.bpm
                      - (k - 1) * 60 * FrameRate)
                  <= (441 * per_beat * prim.bpm) \div 10

----------------------------------------------------------------------------
(* Synthesis utilities: WaveformGenerator, EnvelopeGenerator *)
(* Durations are in milliseconds; a value is a fraction num / den, den > 0. *)

\* Mutant: the number of samples is rounded to the nearest integer.
SampleCount_Rounded(sample_rate, duration) == RoundHalfEven(sample_rate * duration, 1000)

\* int(sample_rate * duration)
SampleCount(sample_rate, duration) == Trunc(sample_rate * duration, 1000)

\* frequency * t[i] for t = np.linspace(0, duration, n), in cycles: t[i] is
\* i * duration / (n - 1), and 0 for the single point of n = 1.
Cycles(frequency, duration, n, i) ==
    IF n = 1 THEN [num |-> 0, den |-> 1]
    ELSE [num |-> frequency * i * duration, den |-> 1000 * (n - 1)]

\* np.sin(2 * pi * x) for x cycles: the phase is taken in thousandths of a cycle and
\* the half wave is Bhaskara's rational approximation 16 v (1 - v) / (5 - 4 v (1 - v)),
\* in hundredths.
sin_value(x) ==
    LET p == (1000 * (x.num % x.den)) \div x.den
        v == IF p < 500 THEN 2 * p ELSE 2 * p - 1000
        half == (1600 * v * (1000 - v)) \div (5000000 - 4 * v * (1000 - v))
    IN  [num |-> IF p < 500 THEN half ELSE -half, den |-> 100]

\* scipy.signal.sawtooth(2 * pi * x, width): rises from -1 to 1 over the first width
\* (in halves: 2 is the whole period, 1 the triangle) of the period, then falls back.
sawtooth_value(x, width) ==
    LET f == x.num % x.den
    IN  IF 2 * f < width * x.den
        THEN [num |-> 4 * f - width * x.den, den |-> width * x.den]
        ELSE [num |-> (2 + width) * x.den - 4 * f, den |-> (2 - width) * x.den]

\* scipy.signal.square(2 * pi * x): 1 over the first half of the period, then -1.
square_value(x) ==
    IF 2 * (x.num % x.den) < x.den THEN [num |-> 1, den |-> 1] ELSE [num |-> -1, den |-> 1]

\* WaveformGenerator.sine / sawtooth / square / triangle (frequency, duration,
\* sample_rate): np.linspace refuses a negative number of samples.
Waveform(name, frequency, duration, sample_rate) ==
    LET n == SampleCount(sample_rate, duration)
    IN  IF linspace(n) # "ok" THEN Raise("ValueError")
        ELSE [status |-> "ok",
              samples |-> [k \in 1..n |->
                  LET x == Cycles(frequency, duration, n, k - 1)
                  IN  CASE name = "sine" -> sin_value(x)
                        [] name = "sawtooth" -> sawtooth_value(x, 2)
                        [] name = "square" -> square_value(x)
                        [] name = "triangle" -> sawtooth_value(x, 1)]]

\* The bounds of the Python slice [start:stop] of an array of n items: a negative
\* index counts from the end, both are clamped to the array.
SliceIndex(i, n) == IF i < 0 THEN Max(i + n, 0) ELSE Min(i, n)

\* envelope[start:stop] = values: numpy needs as many values as the slice has items,
\* or a single value to repeat.
SliceAssign(envelope, start, stop, values) ==
    LET n == Len(envelope.values)
        lo == SliceIndex(start, n)
        hi == Max(lo, SliceIndex(stop, n))
    IN  IF envelope.status # "ok" THEN envelope
        ELSE IF Len(values) # hi - lo /\ Len(values) # 1 THEN Raise("ValueError")
        ELSE [status |-> "ok",
              values |-> [i \in 1..n |->
                  IF lo < i /\ i <= hi
                  THEN values[IF Len(values) = 1 THEN 1 ELSE i - lo]
                  ELSE envelope.values[i]]]

\* np.linspace(a, b, n) for fractions a and b over the same denominator.
Ramp(a, b, n) ==
    [k \in 1..n |->
        IF n = 1 THEN a
        ELSE [num |-> a.num * (n - 1) + (b.num - a.num) * (k - 1), den |-> a.den * (n - 1)]]

\* EnvelopeGenerator.adsr(attack, decay, sustain_level, release, duration, sample_rate):
\* sustain_level in tenths.
adsr(attack, decay, sustain_level, release, duration, sample_rate) ==
    LET total_samples == SampleCount(sample_rate, duration)
        attack_samples == SampleCount(sample_rate, attack)
        decay_samples == SampleCount(sample_rate, decay)
        release_samples == SampleCount(sample_rate, release)
        sustain_samples == total_samples - attack_samples - decay_samples - release_samples
        zero == [num |-> 0, den |-> 10]
        one == [num |-> 10, den |-> 10]
        level == [num |-> sustain_level, den |-> 10]
        zeros == [status |-> "ok", values |-> [i \in 1..total_samples |-> zero]]
        attacked == SliceAssign(zeros, 0, attack_samples, Ramp(zero, one, attack_samples))
        decayed == SliceAssign(attacked, attack_samples, attack_samples + decay_samples,
                               Ramp(one, level, decay_samples))
        sustained == SliceAssign(decayed, attack_samples + decay_samples,
                                 attack_samples + decay_samples + sustain_samples,
                                 <<level>>)
        released == SliceAssign(sustained, total_samples - release_samples, total_samples,
                                Ramp(level, zero, release_samples))
    IN  released

call_waveform ==
    /\ op \in {"sine", "sawtooth", "square", "triangle"} /\ result.status = "pending"
    /\ Finish(Waveform(op, args.frequency, args.duration, args.sample_rate))

call_adsr ==
    /\ op = "adsr" /\ result.status = "pending"
    /\ Finish(adsr(args.attack, args.decay, args.sustain_level, args.release,
                   args.duration, args.sample_rate))

MaxDurationMs == 12
MaxPhaseMs == 3
MaxEnvelopeMs == 5

InitSynthesis ==
    /\ audio = Shape(FrameRate, 1, 0)
    /\ calc = NoCalc
    /\ prim = NoPrim
    /\ result = Pending
    /\ \/ /\ op \in {"sine", "sawtooth", "square", "triangle"}
          /\ \E frequency \in {-110, 0, 110, 440, 5000}, duration \in 0..MaxDurationMs,
                sample_rate \in {100, 1500, 4410} :
               args = [frequency |-> frequency, duration |-> duration,
                       sample_rate |-> sample_rate]
       \/ /\ op = "adsr"
          /\ \E attack \in 0..MaxPhaseMs, decay \in 0..MaxPhaseMs, release \in 0..MaxPhaseMs,
                sustain_level \in {0, 5, 10}, duration \in 0..MaxEnvelopeMs,
                sample_rate \in {500, 1000} :
               args = [attack |-> attack, decay |-> decay, release |-> release,
                       sustain_level |-> sustain_level, duration |-> duration,
                       sample_rate |-> sample_rate]

NextSynthesis == call_waveform \/ call_adsr

SpecSynthesis == InitSynthesis /\ [][NextSynthesis]_vars

InUnitRange(v) == -v.den <= v.num /\ v.num <= v.den

\* C22 (as claimed): every waveform has exactly round(sample_rate * duration) samples,
\* all within [-1, 1].
C22_RoundedSampleCount ==
    (op \in {"sine", "sawtooth", "square", "triangle"} /\ result.status # "pending") =>
        /\ result.status = "ok"
        /\ Len(result.samples) = RoundHalfEven(args.sample_rate * args.duration, 1000)
        /\ \A i \in 1..Len(result.samples) : InUnitRange(result.samples[i])

\* C22: for every frequency, duration >= 0 and sample rate > 0 every waveform has
\* exactly int(sample_rate * duration) samples, the product truncated, all within
\* [-1, 1].
C22_TruncatedSampleCount ==
    (op \in {"sine", "sawtooth", "square", "triangle"} /\ result.status # "pending") =>
        /\ result.status = "ok"
        /\ Len(result.samples) = (args.sample_rate * args.duration) \div 1000
        /\ \A i \in 1..Len(result.samples) : InUnitRange(result.samples[i])

\* A sawtooth of 7 ms at 4410 Hz (30.87 samples) has been generated with 30 samples.
C22_Witness ==
    /\ op = "sawtooth" /\ args.sample_rate = 4410 /\ args.duration = 7
    /\ args.frequency = 440
    /\ result.status = "ok" /\ Len(result.samples) = 30

\* C23 (as claimed): adsr never fails; it returns int(sample_rate * duration) values,
\* all in [0, 1].
C23_AdsrTotal ==
    (op = "adsr" /\ result.status # "pending") =>
        /\ result.status = "ok"
        /\ Len(result.values) = (args.sample_rate * args.duration) \div 1000
        /\ \A i \in 1..Len(result.values) :
              0 <= result.values[i].num /\ result.values[i].num <= result.values[i].den

----------------------------------------------------------------------------
(* Processing chains: the shape of a buffer through filters and effects *)

\* A buffer of the given shape, every sample at a quarter of full scale; a stereo
\* buffer holds its frames interleaved.
Tone(a) == Buffer(a.frame_rate, a.channels, [i \in 1..ArrayLen(a) |-> 8192])

\* The shape of what a sample-level transform returned.
ShapeOf(r) ==
    IF r.status # "ok" THEN r
    ELSE Return(Shape(r.audio.frame_rate, r.audio.channels,
                      Len(r.audio.samples) \div r.audio.channels))

\* One call of the chain, with the arguments of test_filter_processing_chain where it
\* has them: high_pass at 500 Hz, low_pass at 2 kHz, compress at -20 dB and ratio 3.
Effect(name, a, build) ==
    CASE name = "high_pass" -> high_pass(a, 500, 4)
      [] name = "low_pass" -> low_pass(a, 2000, 7, 4)
      [] name = "band_pass" -> band_pass(a, 500, 2000)
      [] name = "waveshaper" -> Return(waveshaper(a))
      [] name = "bit_crush" -> ShapeOf(bit_crush(Tone(a), 4))
      [] name = "compress" -> ShapeOf(compress(Tone(a), -20, 6, 5, 50))
      [] name = "limit" -> ShapeOf(limit(Tone(a), -1, build))
      [] name = "delay" -> ShapeOf(delay(Tone(a), 1, 1, 1, build))
      [] name = "stereo_width" -> ShapeOf(stereo_width(Tone(a), 3, build))

Filters == {"high_pass", "low_pass", "band_pass"}
Effects == {"waveshaper", "bit_crush", "compress", "limit", "delay"}

MaxChain == 3

\* The next transform of the chain is applied to what the last one returned.
Apply(name, build) ==
    /\ args.depth < MaxChain /\ result.status \in {"pending", "ok"}
    /\ op' = name
    /\ args' = [before |-> audio, depth |-> args.depth + 1]
    /\ result' = Effect(name, audio, build)
    /\ audio' = IF result'.status = "ok" THEN result'.audio ELSE audio
    /\ UNCHANGED <<calc, prim>>

apply_filter == \E name \in Filters : Apply(name, "wrap")

apply_effect == \E name \in Effects, build \in Builds : Apply(name, build)

apply_stereo_width == \E build \in Builds : Apply("stereo_width", build)

InitChain ==
    /\ op = "none"
    /\ \E rate \in {22050, 44100}, ch \in {1, 2}, frames \in {64, 100} :
          /\ audio = Shape(rate, ch, frames)
          /\ args = [before |-> audio, depth |-> 0]
    /\ calc = NoCalc
    /\ prim = NoPrim
    /\ result = Pending

NextChain == apply_filter \/ apply_effect \/ apply_stereo_width

SpecChain == InitChain /\ [][NextChain]_vars

\* C28 (as claimed): every filter and effect returns a buffer with the sample rate, the
\* channel count and the number of frames of its input, mono or stereo, also on the
\* output of stereo_width.
C28_ShapePreserved ==
    (op \in Filters \cup Effects) =>
        /\ result.status = "ok"
        /\ result.audio.frame_rate = args.before.frame_rate
        /\ result.audio.channels = args.before.channels
        /\ result.audio.frames = args.before.frames

\* C29 (as claimed): delay stops after finitely many echoes and returns a buffer for
\* every non-empty buffer, delay_ms >= 0 and feedback in [0, 1].
C29_DelayTerminates ==
    (op = "delay" /\ result.status # "pending") => result.status = "ok"

====
